---- MODULE Spec2Model ----
(***************************************************************************)
(* Market-analysis dashboard: the deterministic data synthesizer and its   *)
(* module-level cache (src/src/utils/dataGenerator.ts), the filter engine  *)
(* (filterDataframe and the page's filteredData) and the page's load and   *)
(* filter-selection handlers (src/src/pages/MarketAnalysis.tsx).           *)
(***************************************************************************)
EXTENDS Integers, Sequences, FiniteSets, TLC

(***************************************************************************)
(* Bounds of the model.  The generator enumerates hundreds of thousands of *)
(* combinations; the model runs the same nested loops over a prefix of     *)
(* each enumerated list.                                                   *)
(***************************************************************************)
NYears == 2
NRegions == 2
NCountries == 1
NServiceTypes == 1
NEndUserTypes == 1
NDeliveryChannels == 1
NBusinessModels == 1
NumMounts == 2
MaxCalls == 3
MaxLen == 2
MaxSel == 2
MaxKeys == 2
MaxChain == 2

Min(a, b) == IF a < b THEN a ELSE b

Prefix(s, n) == SubSeq(s, 1, Min(n, Len(s)))

Range(s) == {s[i] : i \in 1..Len(s)}

(***************************************************************************)
(* generateComprehensiveData: the dimension lists.                         *)
(***************************************************************************)
years == [i \in 1..15 |-> 2020 + i]

regions == <<"North America", "Europe", "APAC", "Latin America", "Middle East", "Africa">>

serviceTypes ==
  << "Personal Branding & Executive Consulting",
     "Digital Presence & Branding Consulting",
     "Transition & Career Image Coaching",
     "Corporate & Institutional Image Training",
     "Educational & Scalable Branding Programs",
     "Public Figure & Media Image Consulting",
     "Others (Communication & Presence Coaching, etc.)" >>

endUserTypes ==
  << "Senior Executives & Professionals",
     "Transitioning Military Personnel",
     "Youth & Students (High School / College)",
     "Public Figures",
     "Government Officials",
     "Corporate Teams (HR, Sales, Leadership)",
     "Everyday Professionals (Emerging Workforce)" >>

deliveryChannels ==
  << "In-Person Consulting", "Virtual / Online Consulting", "Hybrid Engagement" >>

businessModels ==
  << "Premium One-on-One Consulting",
     "Subscription-Based Digital Coaching",
     "Corporate Contracts / Retainers",
     "Online Course / Self-paced Learning",
     "Hybrid Workshop + eLearning",
     "Licensing / Affiliate Programs" >>

productTypes ==
  << "Slow Pyrolysis", "Fast Pyrolysis", "Intermediate Pyrolysis", "Dry Distillation" >>

bladeMaterials ==
  << "Hardwood", "Softwood", "Bamboo", "Coconut Shell / Palm Waste", "Fruitwood",
     "Others (Sawdust, Crop Residue, Mixed Biomass)" >>

handleLengths == << "Agricultural Grade", "Industrial Grade", "Pharmaceutical / Food Grade" >>

applications == << "Liquid", "Powder / Solid", "Concentrate / Distilled" >>

endUsers ==
  << "Agriculture & Farming",
     "Animal Feed & Husbandry",
     "Food & Beverage",
     "Pharmaceuticals & Healthcare",
     "Personal Care & Cosmetics",
     "Activated Carbon & Charcoal Production",
     "Others (Bioenergy & Chemicals etc.)" >>

applicationSubtypes ==
  [ e \in Range(endUsers) |->
      CASE e = "Agriculture & Farming" ->
             << "Bio-Pesticide", "Soil Conditioner", "Plant Growth Promoter", "Compost Accelerator" >>
        [] e = "Animal Feed & Husbandry" -> << "Feed Additive", "Odor Control" >>
        [] e = "Food & Beverage" -> << "Natural Flavoring" >>
        [] e = "Pharmaceuticals & Healthcare" -> << "Antiseptic", "Detoxification Agent" >>
        [] e = "Personal Care & Cosmetics" -> << "Skincare Products", "Deodorants" >>
        [] e = "Activated Carbon & Charcoal Production" -> << "Carbonization Aid", "Quality Enhancer" >>
        [] OTHER -> << >> ]

brands ==
  << "Fiskars", "Bully Tools", "Razor-Back", "Truper", "Ames",
     "Spear & Jackson", "Radius Garden", "Seymour", "Union Tools", "Garant" >>

companies ==
  << "Fiskars Corporation", "Bully Tools Inc", "Razor-Back Tools", "Truper Herramientas",
     "Ames True Temper", "Spear & Jackson", "Radius Garden", "Seymour Manufacturing",
     "Union Tools", "Garant GP" >>

countryMap ==
  [ r \in Range(regions) |->
      CASE r = "North America" -> << "U.S.", "Canada" >>
        [] r = "Europe" -> << "U.K.", "Germany", "Italy", "France", "Spain", "Russia" >>
        [] r = "APAC" -> << "China", "India", "Japan", "South Korea", "Australia" >>
        [] r = "Latin America" -> << "Brazil", "Argentina", "Mexico", "Peru" >>
        [] r = "Middle East" -> << "GCC", "Israel" >>
        [] OTHER -> << "South Africa" >> ]

(* The keys of the multiplier tables. *)
productTypeMultipliers ==
  << "Slow Pyrolysis", "Fast Pyrolysis", "Intermediate Pyrolysis", "Dry Distillation" >>

bladeMaterialMultipliers ==
  << "Hardwood", "Softwood", "Bamboo", "Coconut Shell / Palm Waste", "Fruitwood",
     "Others (Sawdust, Crop Residue, Mixed Biomass)" >>

applicationMultipliers == << "Liquid", "Powder / Solid", "Concentrate / Distilled" >>

endUserMultipliers ==
  << "Agriculture & Farming",
     "Animal Feed & Husbandry",
     "Food & Beverage",
     "Pharmaceuticals & Healthcare",
     "Personal Care & Cosmetics",
     "Activated Carbon & Charcoal Production",
     "Others (Bioenergy & Chemicals etc.)" >>

regionMultipliers ==
  << "North America", "Europe", "APAC", "Latin America", "Middle East", "Africa" >>

(***************************************************************************)
(* seededRandom: seed = (seed * 9301 + 49297) % 233280.  JavaScript        *)
(* computes the product exactly (it is below 2^53); the model splits the   *)
(* multiplication so that every intermediate value stays below 2^31.       *)
(***************************************************************************)
Modulus == 233280

InitialSeed == 42

InitialRecordId == 100000

seededRandom(s) == ((((s * 93) % Modulus) * 100) + s + 49297) % Modulus

(* list[i] for a 1-based position i; a position outside the list gives    *)
(* undefined, written "undefined".                                         *)
At(list, i) == IF i \in 1..Len(list) THEN list[i] ELSE "undefined"

(* Variant: the position is rounded to the nearest integer. *)
PickRounded(list, s) == At(list, (((2 * s * Len(list)) + Modulus) \div (2 * Modulus)) + 1)

(* list[Math.floor(seededRandom() * list.length)].  The floating-point     *)
(* product has the same floor as the exact quotient for every seed in      *)
(* 0..233279 and every list length used by the generator.                  *)
Pick(list, s) == At(list, ((s * Len(list)) \div Modulus) + 1)

(***************************************************************************)
(* The nested for-loops, outermost (year) first, innermost (businessModel) *)
(* last, as the sequence of loop-variable combinations they visit.         *)
(***************************************************************************)
RECURSIVE FlatMap(_, _)
FlatMap(F(_), s) == IF s = << >> THEN << >> ELSE F(Head(s)) \o FlatMap(F, Tail(s))

Combos ==
  FlatMap(LAMBDA year:
    FlatMap(LAMBDA region:
      FlatMap(LAMBDA country:
        FlatMap(LAMBDA serviceType:
          FlatMap(LAMBDA endUserType:
            FlatMap(LAMBDA deliveryChannel:
              FlatMap(LAMBDA businessModel:
                << [ year |-> year, region |-> region, country |-> country,
                     serviceType |-> serviceType, endUserType |-> endUserType,
                     deliveryChannel |-> deliveryChannel, businessModel |-> businessModel ] >>,
                Prefix(businessModels, NBusinessModels)),
              Prefix(deliveryChannels, NDeliveryChannels)),
            Prefix(endUserTypes, NEndUserTypes)),
          Prefix(serviceTypes, NServiceTypes)),
        Prefix(countryMap[region], NCountries)),
      Prefix(regions, NRegions)),
    Prefix(years, NYears))

(* Variant: the lookup finds no subtypes. *)
SubtypesMissing(endUser) == << >>

(* applicationSubtypes[endUser] || [] *)
Subtypes(endUser) ==
  IF endUser \in DOMAIN applicationSubtypes THEN applicationSubtypes[endUser] ELSE << >>

(***************************************************************************)
(* The body of the innermost loop: the draws, in the order the code makes  *)
(* them, and the record pushed.  The seven numeric measures are rounded    *)
(* floating-point functions of the record's categorical fields and of one  *)
(* draw each; the record carries those draws (field "draws": basePrice,    *)
(* baseVolume, marketValueUsd, baseMarketShare, baseCAGR, yoyGrowth, qty). *)
(***************************************************************************)
LoopBody(c, seed0, recordId) ==
  LET s1 == seededRandom(seed0)
      productType == Pick(productTypes, s1)
      s2 == seededRandom(s1)
      bladeMaterial == Pick(bladeMaterials, s2)
      s3 == seededRandom(s2)
      handleLength == Pick(handleLengths, s3)
      s4 == seededRandom(s3)
      application == Pick(applications, s4)
      s5 == seededRandom(s4)
      endUser == Pick(endUsers, s5)
      s6 == seededRandom(s5)
      isDirect == s6 * 2 > Modulus
      subtypes == Subtypes(endUser)
      s7 == IF Len(subtypes) > 0 THEN seededRandom(s6) ELSE s6
      distributionChannel == IF Len(subtypes) > 0 THEN Pick(subtypes, s7) ELSE endUser
      s8 == seededRandom(s7)
      brand == Pick(brands, s8)
      s9 == seededRandom(s8)
      company == Pick(companies, s9)
      s10 == seededRandom(s9)
      s11 == seededRandom(s10)
      s12 == seededRandom(s11)
      s13 == seededRandom(s12)
      s14 == seededRandom(s13)
      s15 == seededRandom(s14)
      s16 == seededRandom(s15)
  IN  [ seed |-> s16,
        rec |-> [ recordId |-> recordId,
                  year |-> c.year,
                  region |-> c.region,
                  country |-> c.country,
                  serviceType |-> c.serviceType,
                  endUserType |-> c.endUserType,
                  deliveryChannel |-> c.deliveryChannel,
                  businessModel |-> c.businessModel,
                  productType |-> productType,
                  bladeMaterial |-> bladeMaterial,
                  handleLength |-> handleLength,
                  application |-> application,
                  endUser |-> endUser,
                  distributionChannelType |->
                    IF isDirect THEN "Direct" ELSE "Indirect (Via Distributors)",
                  distributionChannel |-> distributionChannel,
                  brand |-> brand,
                  company |-> company,
                  draws |-> << s10, s11, s12, s13, s14, s15, s16 >> ] ]

(* Variant: recordId++ is missing from the innermost loop body. *)
RECURSIVE GenLoopNoIncrement(_, _, _, _, _)
GenLoopNoIncrement(i, n, seed0, recordId, data) ==
  IF i > n
    THEN [ data |-> data, seed |-> seed0, recordId |-> recordId ]
    ELSE LET b == LoopBody(Combos[i], seed0, recordId)
         IN  GenLoopNoIncrement(i + 1, n, b.seed, recordId, Append(data, b.rec))

(* The loops run over the first n combinations, from the given values of   *)
(* the locals seed and recordId; data.push and recordId++ after each.      *)
RECURSIVE GenLoop(_, _, _, _, _)
GenLoop(i, n, seed0, recordId, data) ==
  IF i > n
    THEN [ data |-> data, seed |-> seed0, recordId |-> recordId ]
    ELSE LET b == LoopBody(Combos[i], seed0, recordId)
         IN  GenLoop(i + 1, n, b.seed, recordId + 1, Append(data, b.rec))

(***************************************************************************)
(* JavaScript values met by the filters: numbers, strings, undefined.      *)
(***************************************************************************)
Num(n) == [ t |-> "number", n |-> n ]

Str(x) == [ t |-> "string", s |-> x ]

NaN == [ t |-> "NaN" ]

Undefined == [ t |-> "undefined" ]

DigitChars == "0123456789"

DigitChar(d) == SubSeq(DigitChars, d + 1, d + 1)

(* String(n) of a non-negative integer: its decimal digits. *)
RECURSIVE NatToString(_)
NatToString(n) == IF n < 10 THEN DigitChar(n) ELSE NatToString(n \div 10) \o DigitChar(n % 10)

(* String(v) *)
String(v) ==
  CASE v.t = "number" -> NatToString(v.n)
    [] v.t = "string" -> v.s
    [] v.t = "NaN" -> "NaN"
    [] OTHER -> "undefined"

IsDigit(c) == \E d \in 0..9 : DigitChar(d) = c

DigitValue(c) == CHOOSE d \in 0..9 : DigitChar(d) = c

RECURSIVE ParseDigits(_, _)
ParseDigits(str, acc) ==
  IF Len(str) = 0 THEN Num(acc)
  ELSE IF IsDigit(Head(str)) THEN ParseDigits(Tail(str), acc * 10 + DigitValue(Head(str)))
  ELSE NaN

(* Number(v) of a string of decimal digits (the empty string gives 0, any  *)
(* other character gives NaN).                                             *)
Number(str) == ParseDigits(str, 0)

(* Array.prototype.includes (SameValueZero: no conversion between types). *)
Includes(values, x) == \E i \in 1..Len(values) : values[i] = x

(* The elements of a set of integers in ascending order. *)
RECURSIVE SortedSeq(_)
SortedSeq(S) ==
  IF S = {} THEN << >>
  ELSE LET m == CHOOSE x \in S : \A y \in S : x <= y
       IN  << m >> \o SortedSeq(S \ {m})

(***************************************************************************)
(* The numbers of the derived metrics: exact fractions n/d in lowest terms *)
(* (d > 0), NaN and the two infinities, with the arithmetic and the        *)
(* comparisons JavaScript gives them.                                      *)
(***************************************************************************)
Abs(n) == IF n < 0 THEN 0 - n ELSE n

RECURSIVE Gcd(_, _)
Gcd(a, b) == IF b = 0 THEN a ELSE Gcd(b, a % b)

(* The fraction n/d, d # 0. *)
Ratio(n, d) ==
  LET g == Gcd(Abs(n), Abs(d))
      s == IF d < 0 THEN 0 - 1 ELSE 1
  IN  [ t |-> "number", n |-> (s * n) \div g, d |-> (s * d) \div g ]

Whole(n) == Ratio(n, 1)

Infinity(sign) == [ t |-> "Infinity", sign |-> sign ]

IsFinite(x) == x.t = "number"

IsNaN(x) == x.t = "NaN"

Sign(x) ==
  CASE x.t = "number" -> (IF x.n > 0 THEN 1 ELSE IF x.n < 0 THEN 0 - 1 ELSE 0)
    [] x.t = "Infinity" -> x.sign
    [] OTHER -> 0

(* x + y *)
Plus(x, y) ==
  IF IsFinite(x) /\ IsFinite(y)
    THEN LET l == (x.d \div Gcd(x.d, y.d)) * y.d
         IN  Ratio(x.n * (l \div x.d) + y.n * (l \div y.d), l)
  ELSE IF IsNaN(x) \/ IsNaN(y) THEN NaN
  ELSE IF IsFinite(y) THEN x
  ELSE IF IsFinite(x) THEN y
  ELSE IF x.sign = y.sign THEN x
  ELSE NaN

Negate(x) ==
  CASE x.t = "number" -> Ratio(0 - x.n, x.d)
    [] x.t = "Infinity" -> Infinity(0 - x.sign)
    [] OTHER -> NaN

(* x - y *)
Minus(x, y) == Plus(x, Negate(y))

(* x * y *)
Times(x, y) ==
  IF IsFinite(x) /\ IsFinite(y)
    THEN LET a == Ratio(x.n, y.d)
             b == Ratio(y.n, x.d)
         IN  Ratio(a.n * b.n, a.d * b.d)
  ELSE IF IsNaN(x) \/ IsNaN(y) \/ Sign(x) = 0 \/ Sign(y) = 0 THEN NaN
  ELSE Infinity(Sign(x) * Sign(y))

(* x / y: a division by zero gives NaN (0/0) or an infinity. *)
Over(x, y) ==
  IF IsFinite(x) /\ IsFinite(y)
    THEN IF y.n = 0
           THEN (IF x.n = 0 THEN NaN ELSE Infinity(Sign(x)))
           ELSE Times(x, Ratio(y.d, y.n))
  ELSE IF IsNaN(x) \/ IsNaN(y) THEN NaN
  ELSE IF IsFinite(x) THEN Whole(0)
  ELSE IF IsFinite(y) THEN Infinity(IF Sign(y) < 0 THEN 0 - x.sign ELSE x.sign)
  ELSE NaN

(* x < y: false as soon as an operand is NaN. *)
LessThan(x, y) ==
  IF IsNaN(x) \/ IsNaN(y) THEN FALSE
  ELSE IF IsFinite(x) /\ IsFinite(y)
    THEN LET l == (x.d \div Gcd(x.d, y.d)) * y.d
         IN  x.n * (l \div x.d) < y.n * (l \div y.d)
  ELSE IF IsFinite(x) THEN y.sign > 0
  ELSE IF IsFinite(y) THEN x.sign < 0
  ELSE x.sign < y.sign

(* x > y *)
GreaterThan(x, y) == LessThan(y, x)

(* v || 0: undefined, NaN and 0 are falsy. *)
OrZero(v) ==
  IF v.t = "undefined" \/ v.t = "NaN" \/ (v.t = "number" /\ v.n = 0) THEN Whole(0) ELSE v

(* Math.max(x, y), Math.min(x, y) *)
MathMax(x, y) == IF IsNaN(x) \/ IsNaN(y) THEN NaN ELSE IF LessThan(x, y) THEN y ELSE x

MathMin(x, y) == IF IsNaN(x) \/ IsNaN(y) THEN NaN ELSE IF LessThan(y, x) THEN y ELSE x

(* values.reduce((a, b) => a + b, init) *)
RECURSIVE SumFrom(_, _)
SumFrom(init, values) ==
  IF values = << >> THEN init ELSE SumFrom(Plus(init, Head(values)), Tail(values))

(***************************************************************************)
(* Array.prototype.sort() without a comparator: the elements are compared  *)
(* as strings, by UTF-16 code unit.                                        *)
(***************************************************************************)
(* The characters of the model's strings, in code-unit order. *)
CharOrder == " &(),-./0123456789ABCDEFGHIJKLMNOPQRSTUVWXYZabcdefghijklmnopqrstuvwxyz"

CharCode(c) == CHOOSE i \in 1..Len(CharOrder) : SubSeq(CharOrder, i, i) = c

RECURSIVE StrLess(_, _)
StrLess(a, b) ==
  IF Len(b) = 0 THEN FALSE
  ELSE IF Len(a) = 0 THEN TRUE
  ELSE IF SubSeq(a, 1, 1) = SubSeq(b, 1, 1)
    THEN StrLess(SubSeq(a, 2, Len(a)), SubSeq(b, 2, Len(b)))
  ELSE CharCode(SubSeq(a, 1, 1)) < CharCode(SubSeq(b, 1, 1))

RECURSIVE InsertString(_, _)
InsertString(x, sorted) ==
  IF sorted = << >> THEN << x >>
  ELSE IF StrLess(x, Head(sorted)) THEN << x >> \o sorted
  ELSE << Head(sorted) >> \o InsertString(x, Tail(sorted))

(* names.sort() *)
RECURSIVE SortStrings(_)
SortStrings(names) ==
  IF names = << >> THEN << >>
  ELSE InsertString(names[Len(names)], SortStrings(SubSeq(names, 1, Len(names) - 1)))

RECURSIVE InsertNumber(_, _)
InsertNumber(x, sorted) ==
  IF sorted = << >> THEN << x >>
  ELSE IF StrLess(NatToString(x), NatToString(Head(sorted))) THEN << x >> \o sorted
  ELSE << Head(sorted) >> \o InsertNumber(x, Tail(sorted))

(* numbers.sort(): sorted by their decimal strings. *)
RECURSIVE SortNumbers(_)
SortNumbers(numbers) ==
  IF numbers = << >> THEN << >>
  ELSE InsertNumber(numbers[Len(numbers)], SortNumbers(SubSeq(numbers, 1, Len(numbers) - 1)))

(* [...new Set(list)]: the first occurrence of every element, in order. *)
RECURSIVE Dedup(_, _)
Dedup(list, acc) ==
  IF list = << >> THEN acc
  ELSE Dedup(Tail(list), IF Head(list) \in Range(acc) THEN acc ELSE Append(acc, Head(list)))

Distinct(list) == Dedup(list, << >>)

(***************************************************************************)
(* The standard view's derived data: analysisData and kpis.                *)
(***************************************************************************)
(* A Map or plain object: a function from its keys; insertion or update.   *)
EmptyMap == [ k \in { } |-> Undefined ]

Put(m, k, v) == (k :> v) @@ m

(* map.get(k): undefined when the key is absent. *)
Get(m, k) == IF k \in DOMAIN m THEN m[k] ELSE Undefined

(* d.volumeUnits, d.marketValueUsd: undefined on a record without the field. *)
Measure(d, name) == IF name \in DOMAIN d THEN Whole(d[name]) ELSE Undefined

(* Variant: the view always reads the market value. *)
getDataValueIgnoringMode(d, f) == Over(OrZero(Measure(d, "marketValueUsd")), Whole(1000))

(* getDataValue: volumeUnits in volume mode, else marketValueUsd / 1000. *)
getDataValue(d, f) ==
  IF f.marketEvaluation = "By Volume"
    THEN OrZero(Measure(d, "volumeUnits"))
    ELSE Over(OrZero(Measure(d, "marketValueUsd")), Whole(1000))

(* (d) => d.serviceType || '' and the like *)
getSegmentValue(d, field) == IF field \in DOMAIN d THEN d[field] ELSE ""

(* filters.byServiceType.length > 0 ? filters.byServiceType : undefined *)
SelectedSegments(list) ==
  IF Len(list) > 0 THEN [ given |-> TRUE, list |-> list ] ELSE [ given |-> FALSE, list |-> << >> ]

(* const years = [...new Set(filteredData.map(d => d.year))].sort() *)
AnalysisYears(filteredRecords) ==
  SortNumbers(Distinct([ i \in 1..Len(filteredRecords) |-> filteredRecords[i].year ]))

(* segmentsFromData, then the explicit list when one is given *)
Segments(filteredRecords, field, selectedSegments) ==
  LET segmentsFromData ==
        SortStrings(SelectSeq(
          Distinct([ i \in 1..Len(filteredRecords) |-> getSegmentValue(filteredRecords[i], field) ]),
          LAMBDA x : x # ""))
  IN  IF selectedSegments.given /\ Len(selectedSegments.list) > 0
        THEN SortStrings(SelectSeq(selectedSegments.list, LAMBDA x : x # ""))
        ELSE segmentsFromData

(* `${d.year}-${getSegmentValue(d)}` *)
SegmentKey(year, segment) == NatToString(year) \o "-" \o segment

(* filteredData.forEach(d => segmentMap.set(key, (segmentMap.get(key) || 0) + getDataValue(d))) *)
RECURSIVE SegmentMapLoop(_, _, _, _)
SegmentMapLoop(items, f, field, segmentMap) ==
  IF items = << >> THEN segmentMap
  ELSE LET d == Head(items)
           key == SegmentKey(d.year, getSegmentValue(d, field))
       IN  SegmentMapLoop(Tail(items), f, field,
                          Put(segmentMap, key, Plus(OrZero(Get(segmentMap, key)), getDataValue(d, f))))

(* The entry of one year: { year: String(year) }, then one property per segment. *)
RECURSIVE SegmentEntry(_, _, _, _)
SegmentEntry(segments, year, segmentMap, entry) ==
  IF segments = << >> THEN entry
  ELSE SegmentEntry(Tail(segments), year, segmentMap,
                    Put(entry, Head(segments),
                        OrZero(Get(segmentMap, SegmentKey(year, Head(segments))))))

generateSegmentChartData(filteredRecords, f, field, selectedSegments) ==
  LET yearList == AnalysisYears(filteredRecords)
      segments == Segments(filteredRecords, field, selectedSegments)
      segmentMap == SegmentMapLoop(filteredRecords, f, field, EmptyMap)
  IN  [ chartData |->
          [ y \in 1..Len(yearList) |->
              SegmentEntry(segments, yearList[y], segmentMap,
                           Put(EmptyMap, "year", NatToString(yearList[y]))) ],
        segments |-> segments ]

(* Group by year, then by segment: records with an empty segment are skipped. *)
RECURSIVE YearSegmentMapLoop(_, _, _, _)
YearSegmentMapLoop(items, f, field, yearSegmentMap) ==
  IF items = << >> THEN yearSegmentMap
  ELSE LET d == Head(items)
           segment == getSegmentValue(d, field)
           old == IF d.year \in DOMAIN yearSegmentMap THEN yearSegmentMap[d.year] ELSE EmptyMap
           new == Put(old, segment, Plus(OrZero(Get(old, segment)), getDataValue(d, f)))
       IN  YearSegmentMapLoop(Tail(items), f, field,
             IF segment # "" THEN Put(yearSegmentMap, d.year, new) ELSE yearSegmentMap)

RECURSIVE StackedEntry(_, _, _)
StackedEntry(segments, segmentMap, entry) ==
  IF segments = << >> THEN entry
  ELSE StackedEntry(Tail(segments), segmentMap,
                    Put(entry, Head(segments), OrZero(Get(segmentMap, Head(segments)))))

(* Variant: every segment of the universe is returned. *)
ActiveSegmentsAll(segments, chartData) == segments

(* segments.filter(segment => chartData.some(entry => entry[segment] > 0)) *)
ActiveSegments(segments, chartData) ==
  SelectSeq(segments,
            LAMBDA segment :
              \E y \in 1..Len(chartData) : GreaterThan(chartData[y][segment], Whole(0)))

generateYearWiseStackedBarData(filteredRecords, f, field, selectedSegments) ==
  LET yearList == AnalysisYears(filteredRecords)
      segments == Segments(filteredRecords, field, selectedSegments)
      yearSegmentMap == YearSegmentMapLoop(filteredRecords, f, field, EmptyMap)
      chartData ==
        [ y \in 1..Len(yearList) |->
            StackedEntry(segments,
                         IF yearList[y] \in DOMAIN yearSegmentMap
                           THEN yearSegmentMap[yearList[y]] ELSE EmptyMap,
                         Put(EmptyMap, "year", NatToString(yearList[y]))) ]
  IN  [ chartData |-> chartData, segments |-> ActiveSegments(segments, chartData) ]

(* The accumulation into regionYearData[yearKey][region][country] and      *)
(* regionYearTotals[yearKey][region], the objects keyed by the paths.      *)
RECURSIVE RegionYearLoop(_, _, _)
RegionYearLoop(items, f, acc) ==
  IF items = << >> THEN acc
  ELSE LET d == Head(items)
           value == getDataValue(d, f)
           yearKey == NatToString(d.year)
           cell == << yearKey, d.region, d.country >>
           total == << yearKey, d.region >>
       IN  RegionYearLoop(Tail(items), f,
             [ regionYearData |->
                 Put(acc.regionYearData, cell, Plus(OrZero(Get(acc.regionYearData, cell)), value)),
               regionYearTotals |->
                 Put(acc.regionYearTotals, total,
                     Plus(OrZero(Get(acc.regionYearTotals, total)), value)) ])

(* Variant: the share is computed without the guard on the total. *)
PercentageUnguarded(value, totalValue) == Times(Over(value, totalValue), Whole(100))

(* totalValue > 0 ? ((value / totalValue) * 100) : 0 *)
Percentage(value, totalValue) ==
  IF GreaterThan(totalValue, Whole(0)) THEN Times(Over(value, totalValue), Whole(100)) ELSE Whole(0)

(* Object.entries of an object whose keys are year strings lists them in   *)
(* ascending numeric order; the regions of a year come in insertion order, *)
(* the countries of a region sorted.                                       *)
regionCountryPercentageChartData(filteredRecords, f) ==
  LET acc == RegionYearLoop(filteredRecords, f,
                            [ regionYearData |-> EmptyMap, regionYearTotals |-> EmptyMap ])
      yearList == SortedSeq({ filteredRecords[i].year : i \in 1..Len(filteredRecords) })
      regionsOf(year) ==
        Distinct(SelectSeq([ i \in 1..Len(filteredRecords) |->
                               IF filteredRecords[i].year = year
                                 THEN filteredRecords[i].region ELSE "" ],
                           LAMBDA x : x # ""))
      countriesOf(year, region) ==
        SortStrings(Distinct(SelectSeq(
          [ i \in 1..Len(filteredRecords) |->
              IF filteredRecords[i].year = year /\ filteredRecords[i].region = region
                THEN filteredRecords[i].country ELSE "" ],
          LAMBDA x : x # "")))
      row(year, region, country) ==
        LET yearKey == NatToString(year)
            totalValue == acc.regionYearTotals[<< yearKey, region >>]
            value == OrZero(acc.regionYearData[<< yearKey, region, country >>])
        IN  [ year |-> Number(yearKey),
              region |-> region,
              country |-> country,
              value |-> IF f.marketEvaluation = "By Volume"
                          THEN value ELSE Percentage(value, totalValue),
              yearRegion |-> yearKey \o " - " \o region ]
  IN  FlatMap(LAMBDA year :
                FlatMap(LAMBDA region :
                          LET countryList == countriesOf(year, region)
                          IN  [ c \in 1..Len(countryList) |-> row(year, region, countryList[c]) ],
                        regionsOf(year)),
              yearList)

(* The value returned when filteredData is empty. *)
EmptyAnalysisData ==
  [ serviceTypeChartData |-> << >>,
    endUserTypeChartData |-> << >>,
    deliveryChannelChartData |-> << >>,
    businessModelChartData |-> << >>,
    regionCountryPercentageChartData |-> << >>,
    serviceTypes |-> << >>,
    endUserTypes |-> << >>,
    deliveryChannels |-> << >>,
    businessModels |-> << >>,
    serviceTypeStackedData |-> [ chartData |-> << >>, segments |-> << >> ],
    endUserTypeStackedData |-> [ chartData |-> << >>, segments |-> << >> ],
    deliveryChannelStackedData |-> [ chartData |-> << >>, segments |-> << >> ],
    businessModelStackedData |-> [ chartData |-> << >>, segments |-> << >> ] ]

(* filteredData.length === 0 *)
AnalysisGuard(filteredRecords) == Len(filteredRecords) = 0

(* const analysisData = useMemo(() => { ... }, [filteredData, filters...]) *)
analysisData(filteredRecords, f) ==
  IF AnalysisGuard(filteredRecords) THEN EmptyAnalysisData
  ELSE LET serviceTypeData ==
             generateSegmentChartData(filteredRecords, f, "serviceType",
                                      SelectedSegments(f.byServiceType))
           endUserTypeData ==
             generateSegmentChartData(filteredRecords, f, "endUserType",
                                      SelectedSegments(f.byEndUser))
           deliveryChannelData ==
             generateSegmentChartData(filteredRecords, f, "deliveryChannel",
                                      SelectedSegments(f.byDeliveryChannel))
           businessModelData ==
             generateSegmentChartData(filteredRecords, f, "businessModel",
                                      SelectedSegments(f.byBusinessModel))
       IN  [ serviceTypeChartData |-> serviceTypeData.chartData,
             endUserTypeChartData |-> endUserTypeData.chartData,
             deliveryChannelChartData |-> deliveryChannelData.chartData,
             businessModelChartData |-> businessModelData.chartData,
             regionCountryPercentageChartData |->
               regionCountryPercentageChartData(filteredRecords, f),
             serviceTypes |-> serviceTypeData.segments,
             endUserTypes |-> endUserTypeData.segments,
             deliveryChannels |-> deliveryChannelData.segments,
             businessModels |-> businessModelData.segments,
             serviceTypeStackedData |->
               generateYearWiseStackedBarData(filteredRecords, f, "serviceType",
                                              SelectedSegments(f.byServiceType)),
             endUserTypeStackedData |->
               generateYearWiseStackedBarData(filteredRecords, f, "endUserType",
                                              SelectedSegments(f.byEndUser)),
             deliveryChannelStackedData |->
               generateYearWiseStackedBarData(filteredRecords, f, "deliveryChannel",
                                              SelectedSegments(f.byDeliveryChannel)),
             businessModelStackedData |->
               generateYearWiseStackedBarData(filteredRecords, f, "businessModel",
                                              SelectedSegments(f.byBusinessModel)) ]

(* filteredData.reduce((sum, d) => sum + getDataValue(d), 0) *)
RECURSIVE TotalValue(_, _, _)
TotalValue(items, f, sum) ==
  IF items = << >> THEN sum ELSE TotalValue(Tail(items), f, Plus(sum, getDataValue(Head(items), f)))

(* const kpis = useMemo(...): 'N/A' for an empty filtered set, else the     *)
(* total as text, kept here as the number formatted, the decimals asked of *)
(* formatWithCommas and the suffix.                                        *)
kpis(filteredRecords, f) ==
  IF Len(filteredRecords) = 0 THEN [ totalValue |-> "N/A" ]
  ELSE LET totalValue == TotalValue(filteredRecords, f, Whole(0))
       IN  [ totalValue |->
               IF f.marketEvaluation = "By Volume"
                 THEN [ number |-> Over(totalValue, Whole(1000)), decimals |-> 1,
                        suffix |-> "K Tons" ]
                 ELSE [ number |-> totalValue, decimals |-> 1, suffix |-> "M" ] ]

(***************************************************************************)
(* The incremental view's derived data: waterfallData.                     *)
(***************************************************************************)
(* (d.marketValueUsd || 0) / 1000 *)
ValueInMillions(d) == Over(OrZero(Measure(d, "marketValueUsd")), Whole(1000))

(* filtered.filter(d => selection.includes(d.<field>)) when the selection  *)
(* is not empty.                                                           *)
Narrow(filtered, field, selection) ==
  IF Len(selection) > 0
    THEN SelectSeq(filtered, LAMBDA d : Includes(selection, d[field]))
    ELSE filtered

(* const filteredIncrementalData = useMemo(...) *)
filteredIncrementalData(d, f) == Narrow(Narrow(d, "region", f.region), "country", f.country)

(* records.filter(d => d.year === year).reduce((sum, d) => sum + value, 0) *)
YearTotal(records, year) ==
  LET yearData == SelectSeq(records, LAMBDA d : d.year = year)
  IN  SumFrom(Whole(0), [ i \in 1..Len(yearData) |-> ValueInMillions(yearData[i]) ])

DefaultBase == 57159

(* The default increments of 2025..2031. *)
DefaultIncrements ==
  << Ratio(26384, 10), Ratio(28504, 10), Ratio(30556, 10), Ratio(32310, 10),
     Ratio(34329, 10), Ratio(36742, 10), Ratio(38851, 10) >>

(* Variant: the base is the 2024 sum even when that is 0. *)
BaseValueNoDefault(records) == YearTotal(records, 2024)

(* baseYearData.reduce(...) || 57159 *)
BaseValue(records) ==
  LET sum == YearTotal(records, 2024)
  IN  IF OrZero(sum) = Whole(0) THEN Whole(DefaultBase) ELSE sum

(* The increment of one year of the loop over 2025..2031. *)
Incremental(records, year, baseValue) ==
  LET yearValue == YearTotal(records, year)
      prevYearValue == YearTotal(records, year - 1)
  IN  IF GreaterThan(yearValue, Whole(0)) /\ GreaterThan(prevYearValue, Whole(0))
        THEN Minus(yearValue, prevYearValue)
        ELSE Times(DefaultIncrements[year - 2024], Over(baseValue, Whole(DefaultBase)))

(* Variant: the running total restarts from the base at every row. *)
CumulativeFromBase(baseValue, values, k) == Plus(baseValue, values[k])

(* cumulative after the k-th `cumulative += item.value`. *)
Cumulative(baseValue, values, k) == SumFrom(baseValue, SubSeq(values, 1, k))

(* const waterfallData = useMemo(...) *)
waterfallData(records) ==
  LET baseValue == BaseValue(records)
      values ==
        << Incremental(records, 2025, baseValue), Incremental(records, 2026, baseValue),
           Incremental(records, 2027, baseValue), Incremental(records, 2028, baseValue),
           Incremental(records, 2029, baseValue), Incremental(records, 2030, baseValue),
           Incremental(records, 2031, baseValue) >>
      last == Cumulative(baseValue, values, 7)
  IN  [ chartData |->
          << [ year |-> "2024", baseValue |-> baseValue, totalValue |-> baseValue,
               isBase |-> TRUE ] >>
          \o [ k \in 1..7 |->
                 [ year |-> NatToString(2024 + k), incrementalValue |-> values[k],
                   totalValue |-> Cumulative(baseValue, values, k) ] ]
          \o << [ year |-> "2032", baseValue |-> last, totalValue |-> last,
                  isTotal |-> TRUE ] >>,
        incrementalOpportunity |-> SumFrom(Whole(0), values) ]

(***************************************************************************)
(* The YoY view's derived data: yoyCagrDataByEntity.                       *)
(***************************************************************************)
(* The fields of a record that carry a segment, in the order the code adds *)
(* their values.                                                           *)
SegmentFields == << "serviceType", "endUserType", "deliveryChannel", "businessModel" >>

segmentCategories ==
  << "By Service Type", "By End User", "By Delivery Channel", "By Business Model" >>

(* Array.from(set).sort() of the non-empty values of one field of data. *)
ChildItems(d, field) ==
  SortStrings(SelectSeq(Distinct([ i \in 1..Len(d) |-> getSegmentValue(d[i], field) ]),
                        LAMBDA x : x # ""))

(* yoyFilterOptions.segmentCategoryMap: category -> child items. *)
segmentCategoryMap(d) ==
  [ c \in Range(segmentCategories) |->
      ChildItems(d, SegmentFields[CHOOSE k \in 1..4 : segmentCategories[k] = c]) ]

(* const filteredYoyData = useMemo(...) *)
filteredYoyData(d, f) == Narrow(Narrow(d, "region", f.region), "country", f.country)

(* The child items of the selected categories, or of all four. *)
SelectedSegmentTypes(d, f) ==
  LET categoryMap == segmentCategoryMap(d)
      chosen == IF Len(f.segmentType) > 0 THEN f.segmentType ELSE segmentCategories
  IN  FlatMap(LAMBDA category :
                IF category \in DOMAIN categoryMap THEN categoryMap[category] ELSE << >>,
              chosen)

(* The charts asked for: one per selected country, else one per selected   *)
(* region.                                                                 *)
Entities(filtered, f) ==
  IF Len(f.country) > 0
    THEN [ i \in 1..Len(f.country) |->
             LET country == f.country[i]
                 found == SelectSeq(filtered, LAMBDA d : d.country = country)
                 region == IF Len(found) > 0 THEN found[1].region ELSE ""
             IN  [ type |-> "country", name |-> country,
                   label |-> IF region # "" THEN country \o " (" \o region \o ")"
                             ELSE country ] ]
  ELSE [ i \in 1..Len(f.region) |->
           [ type |-> "region", name |-> f.region[i], label |-> f.region[i] ] ]

(* The sum per segment of one year of an entity's records: each record     *)
(* adds its value under each of its four fields that is a selected segment.*)
RECURSIVE EntitySegmentLoop(_, _, _)
EntitySegmentLoop(items, selected, yearSegmentDataMap) ==
  IF items = << >> THEN yearSegmentDataMap
  ELSE LET d == Head(items)
           value == ValueInMillions(d)
           old == IF d.year \in DOMAIN yearSegmentDataMap
                    THEN yearSegmentDataMap[d.year] ELSE EmptyMap
           add(segmentMap, k) ==
             LET s == getSegmentValue(d, SegmentFields[k])
             IN  IF s # "" /\ Includes(selected, s)
                   THEN Put(segmentMap, s, Plus(OrZero(Get(segmentMap, s)), value))
                   ELSE segmentMap
       IN  EntitySegmentLoop(Tail(items), selected,
             Put(yearSegmentDataMap, d.year, add(add(add(add(old, 1), 2), 3), 4)))

(* Variant: the growth is computed without the guard on the previous value.*)
YoyUnguarded(currentValue, previousValue) ==
  Times(Over(Minus(currentValue, previousValue), previousValue), Whole(100))

(* previousValue > 0 ? ((currentValue - previousValue) / previousValue) * 100 : 0 *)
Yoy(currentValue, previousValue) ==
  IF GreaterThan(previousValue, Whole(0))
    THEN Times(Over(Minus(currentValue, previousValue), previousValue), Whole(100))
    ELSE Whole(0)

(* The chart of one entity, or no chart when it has fewer than two years.  *)
EntityChart(entity, filtered, selected) ==
  LET entityFilteredData ==
        SelectSeq(filtered,
                  LAMBDA d : IF entity.type = "country" THEN d.country = entity.name
                             ELSE d.region = entity.name)
      yearSegmentDataMap == EntitySegmentLoop(entityFilteredData, selected, EmptyMap)
      entityYears ==
        SortNumbers(Distinct([ i \in 1..Len(entityFilteredData) |-> entityFilteredData[i].year ]))
      valueAt(yearIndex, segmentType) ==
        OrZero(Get(Get(yearSegmentDataMap, entityYears[yearIndex]), segmentType))
      yearData(yearIndex) ==
        [ k \in { "year" } \cup Range(selected) |->
            IF k = "year" THEN NatToString(entityYears[yearIndex])
            ELSE IF yearIndex > 1
              THEN Yoy(valueAt(yearIndex, k), valueAt(yearIndex - 1, k))
              ELSE Whole(0) ]
  IN  IF Len(entityYears) < 2 THEN << >>
      ELSE << [ label |-> entity.label,
                data |-> [ yearIndex \in 1..Len(entityYears) |-> yearData(yearIndex) ],
                segmentTypes |-> selected ] >>

(* const yoyCagrDataByEntity = useMemo(...): entityDataMap is keyed by the *)
(* label, the labels of the entities being distinct.                       *)
yoyCagrDataByEntity(d, f) ==
  LET filtered == filteredYoyData(d, f)
      selected == SelectedSegmentTypes(d, f)
  IN  IF Len(f.country) = 0 /\ Len(f.region) = 0 THEN << >>
      ELSE FlatMap(LAMBDA entity : EntityChart(entity, filtered, selected),
                   Entities(filtered, f))

(***************************************************************************)
(* The attractiveness view's derived data: bubbleChartDataByCategory.      *)
(***************************************************************************)
(* filtered.filter(d => d.year >= 2025 && d.year <= 2032), then one        *)
(* narrowing per non-empty selection.                                      *)
filteredAttractivenessData(d, f) ==
  Narrow(Narrow(Narrow(Narrow(Narrow(Narrow(
    SelectSeq(d, LAMBDA r : r.year >= 2025 /\ r.year <= 2032),
    "region", f.region), "country", f.country), "serviceType", f.serviceType),
    "endUserType", f.endUserType), "deliveryChannel", f.deliveryChannel),
    "businessModel", f.businessModel)

(* getCategoryValue: the field named by the segment type, '' standing for  *)
(* the null of an unknown segment type.                                    *)
getCategoryValue(d, segType) ==
  IF segType \in Range(segmentCategories)
    THEN getSegmentValue(d, SegmentFields[CHOOSE k \in 1..4 : segmentCategories[k] = segType])
    ELSE ""

(* values.length > 0 ? values.reduce((a, b) => a + b, 0) / values.length : 0 *)
Average(values) ==
  IF Len(values) > 0 THEN Over(SumFrom(Whole(0), values), Whole(Len(values))) ELSE Whole(0)

(* The average value of a category's records of one year. *)
YearAverage(itemRecords, year) ==
  LET chosen == SelectSeq(itemRecords, LAMBDA d : d.year = year)
  IN  Average([ i \in 1..Len(chosen) |-> ValueInMillions(chosen[i]) ])

(* (Math.pow(ratio, 1 / years) - 1) * 100: the root itself is not          *)
(* computed; the value is kept by its radicand, its sign being the sign of *)
(* ratio - 1 for a ratio that is not negative, and NaN for a negative one. *)
GrowthRate(ratio, nYears) ==
  IF IsNaN(ratio) \/ Sign(ratio) < 0 THEN NaN
  ELSE IF ~IsFinite(ratio) THEN ratio
  ELSE IF ratio = Whole(1) THEN Whole(0)
  ELSE [ t |-> "growth", ratio |-> ratio, years |-> nYears ]

(* Math.max(0, cagr) *)
MaxZero(cagr) ==
  IF cagr.t = "growth"
    THEN (IF GreaterThan(cagr.ratio, Whole(1)) THEN cagr ELSE Whole(0))
    ELSE MathMax(Whole(0), cagr)

(* Variant: the growth is computed for every pair of values. *)
ComputedCagrUnguarded(startValue, endValue) ==
  MaxZero(GrowthRate(Over(endValue, startValue), 2032 - 2025))

(* let cagr = 0; if (startValue > 0 && endValue > 0) cagr = ...;           *)
(* cagr = Math.max(0, cagr): the value before the index-based overwrite.   *)
ComputedCagr(startValue, endValue) ==
  MaxZero(IF GreaterThan(startValue, Whole(0)) /\ GreaterThan(endValue, Whole(0))
            THEN GrowthRate(Over(endValue, startValue), 2032 - 2025)
            ELSE Whole(0))

(* x % y for x >= 0 and y > 0. *)
Remainder(x, y) ==
  LET q == Over(x, y)
  IN  Minus(x, Times(Whole(q.n \div q.d), y))

goldenRatio == Ratio(1618, 1000)

(* The category names in the order of sortedItems. *)
SortedItems(filtered, segmentType) ==
  SortStrings(SelectSeq(
    Distinct([ i \in 1..Len(filtered) |-> getCategoryValue(filtered[i], segmentType) ]),
    LAMBDA x : x # ""))

(* Math.max(1, numItems - 1) *)
Spread(numItems) == IF numItems - 1 > 1 THEN numItems - 1 ELSE 1

(* cagr = (index / Math.max(1, numItems - 1)) * 25.0; index counts from 0. *)
IndexCagr(index, numItems) == Times(Over(Whole(index), Whole(Spread(numItems))), Whole(25))

(* marketShare = (((index * goldenRatio) % numItems) /                     *)
(*                Math.max(1, numItems - 1)) * 30.0                        *)
IndexShare(index, numItems) ==
  Times(Over(Remainder(Times(Whole(index), goldenRatio), Whole(numItems)),
             Whole(Spread(numItems))),
        Whole(30))

(* Variant: marketShare keeps the share computed from the values,          *)
(* (itemTotal / allItemsTotal) * 100.                                      *)
RawBubbleMeasured(item, index, numItems, filtered, segmentType) ==
  LET itemRecords ==
        SelectSeq(filtered, LAMBDA d : getCategoryValue(d, segmentType) = item)
      startValue == YearAverage(itemRecords, 2025)
      endValue == YearAverage(itemRecords, 2032)
      itemTotal == SumFrom(Whole(0), [ i \in 1..Len(itemRecords) |-> ValueInMillions(itemRecords[i]) ])
      allItemsTotal == SumFrom(Whole(0), [ i \in 1..Len(filtered) |-> ValueInMillions(filtered[i]) ])
  IN  [ region |-> item,
        cagr |-> IndexCagr(index, numItems),
        marketShare |-> IF GreaterThan(allItemsTotal, Whole(0))
                          THEN Times(Over(itemTotal, allItemsTotal), Whole(100))
                          ELSE Whole(0),
        incrementalOpportunity |->
          LET incrementalOpportunity == Minus(endValue, startValue)
          IN  IF Sign(incrementalOpportunity) < 0 THEN Negate(incrementalOpportunity)
              ELSE incrementalOpportunity ]

(* One element of rawBubbleData; index counts from 0. *)
RawBubble(item, index, numItems, filtered, segmentType) ==
  LET itemRecords ==
        SelectSeq(filtered, LAMBDA d : getCategoryValue(d, segmentType) = item)
      startValue == YearAverage(itemRecords, 2025)
      endValue == YearAverage(itemRecords, 2032)
  IN  [ region |-> item,
        cagr |-> IndexCagr(index, numItems),
        marketShare |-> IndexShare(index, numItems),
        incrementalOpportunity |->
          LET incrementalOpportunity == Minus(endValue, startValue)
          IN  IF Sign(incrementalOpportunity) < 0 THEN Negate(incrementalOpportunity)
              ELSE incrementalOpportunity ]

rawBubbleData(filtered, segmentType) ==
  LET sortedItems == SortedItems(filtered, segmentType)
  IN  [ k \in 1..Len(sortedItems) |->
          RawBubble(sortedItems[k], k - 1, Len(sortedItems), filtered, segmentType) ]

(* Math.min(...values), Math.max(...values): the least and the greatest  *)
(* of the values, found by halves.                                         *)
MinOf(values) ==
  IF Len(values) = 0 THEN Infinity(1)
  ELSE LET RECURSIVE least(_, _)
           least(lo, hi) ==
             IF lo = hi THEN values[lo]
             ELSE MathMin(least(lo, (lo + hi) \div 2), least(((lo + hi) \div 2) + 1, hi))
       IN  least(1, Len(values))

MaxOf(values) ==
  IF Len(values) = 0 THEN Infinity(0 - 1)
  ELSE LET RECURSIVE most(_, _)
           most(lo, hi) ==
             IF lo = hi THEN values[lo]
             ELSE MathMax(most(lo, (lo + hi) \div 2), most(((lo + hi) \div 2) + 1, hi))
       IN  most(1, Len(values))

(* [...rawBubbleData].sort((a, b) => (b.incrementalOpportunity || 0) -     *)
(* (a.incrementalOpportunity || 0)): a stable sort, largest first.  An     *)
(* item's place is the number of items that go ahead of it: those of a     *)
(* larger key, and those of an equal key that come earlier in raw.         *)
SortedByOpportunity(raw) ==
  LET key == [ k \in 1..Len(raw) |-> OrZero(raw[k].incrementalOpportunity) ] \o << >>
      ahead == [ k \in 1..Len(raw) |->
                 Cardinality({ j \in 1..Len(raw) :
                   \/ LessThan(key[k], key[j])
                   \/ j < k /\ ~LessThan(key[j], key[k]) }) ] \o << >>
  IN  [ p \in 1..Len(raw) |-> raw[CHOOSE k \in 1..Len(raw) : ahead[k] = p - 1] ]

(* The normalisation of one coordinate to 0..10, 5 when the range is 0. *)
Normalized(value, least, range) ==
  IF GreaterThan(range, Whole(0))
    THEN Times(Over(Minus(value, least), range), Whole(10))
    ELSE Whole(5)

normalizedData(raw) ==
  LET cagrValues == [ k \in 1..Len(raw) |-> raw[k].cagr ]
      marketShareValues == [ k \in 1..Len(raw) |-> raw[k].marketShare ]
      minCagr == MathMax(Whole(0), MinOf(cagrValues))
      maxCagr == MaxOf(cagrValues)
      minShare == MinOf(marketShareValues)
      maxShare == MaxOf(marketShareValues)
      cagrRange == Minus(maxCagr, minCagr)
      shareRange == Minus(maxShare, minShare)
      sorted == SortedByOpportunity(raw)
  IN  [ k \in 1..Len(sorted) |->
          [ region |-> sorted[k].region,
            cagr |-> sorted[k].cagr,
            marketShare |-> sorted[k].marketShare,
            incrementalOpportunity |-> sorted[k].incrementalOpportunity,
            cagrIndex |-> Normalized(sorted[k].cagr, minCagr, cagrRange),
            marketShareIndex |-> Normalized(sorted[k].marketShare, minShare, shareRange) ] ]

(***************************************************************************)
(* The relaxation of the bubble positions.  The positions are kept in      *)
(* thousandths of an index unit, each sum, quotient and root rounded to    *)
(* the nearest thousandth.                                                 *)
(***************************************************************************)
Scale == 1000

minDistance == 3500

maxIterations == 100

(* The nearest integer to a / b, for b > 0. *)
RoundDiv(a, b) == ((2 * a) + b) \div (2 * b)

(* An index value in thousandths. *)
Fixed(x) == ((x.n \div x.d) * Scale) + RoundDiv((x.n % x.d) * Scale, x.d)

(* The integer part of the square root of v, found between lo and hi. *)
RECURSIVE RootBetween(_, _, _)
RootBetween(v, lo, hi) ==
  IF lo >= hi THEN lo
  ELSE LET mid == (lo + hi + 1) \div 2
       IN  IF mid * mid <= v THEN RootBetween(v, mid, hi) ELSE RootBetween(v, lo, mid - 1)

(* Math.sqrt(v) for v below minDistance squared, to the nearest integer. *)
Sqrt(v) ==
  LET r == RootBetween(v, 0, minDistance)
  IN  IF v - (r * r) > r THEN r + 1 ELSE r

(* distance < minDistance && distance > 0.001, decided on the squares. *)
TooClose(squared) == squared < minDistance * minDistance /\ squared > 1

(* The body of the inner loop: what bubble j adds to bubble i.  The        *)
(* direction (cos, sin of atan2(dy, dx)) is (dx, dy) / distance.           *)
Push(adjusted, i, j) ==
  LET dx == adjusted[i].x - adjusted[j].x
      dy == adjusted[i].y - adjusted[j].y
      squared == (dx * dx) + (dy * dy)
  IN  IF i # j /\ TooClose(squared)
        THEN LET distance == Sqrt(squared)
                 pushDistance == RoundDiv((minDistance - distance) * 8, 10)
             IN  [ x |-> RoundDiv(dx * pushDistance, distance),
                   y |-> RoundDiv(dy * pushDistance, distance),
                   hasOverlap |-> TRUE ]
        ELSE [ x |-> 0, y |-> 0, hasOverlap |-> FALSE ]

(* The inner loop over the other bubbles lo..hi: the pushes added to       *)
(* bubble i, summed by halves.                                             *)
RECURSIVE PushLoop(_, _, _, _)
PushLoop(adjusted, i, lo, hi) ==
  IF lo = hi THEN Push(adjusted, i, lo)
  ELSE CHOOSE sum \in
         { [ x |-> a.x + b.x, y |-> a.y + b.y, hasOverlap |-> a.hasOverlap \/ b.hasOverlap ] :
             a \in { PushLoop(adjusted, i, lo, (lo + hi) \div 2) },
             b \in { PushLoop(adjusted, i, ((lo + hi) \div 2) + 1, hi) } } : TRUE

(* Variant: the new position is not clamped. *)
Unclamped(v) == v

(* Math.max(-2, Math.min(12, v)) *)
Clamp(v) == IF v > 12 * Scale THEN 12 * Scale ELSE IF v < 0 - (2 * Scale) THEN 0 - (2 * Scale) ELSE v

(* Variant: a push does not raise hasOverlap. *)
MovedUnflagged(adjusted, i) ==
  CHOOSE moved \in
    { [ x |-> Clamp(adjusted[i].x + push.x), y |-> Clamp(adjusted[i].y + push.y),
        hasOverlap |-> FALSE ] :
        push \in { PushLoop(adjusted, i, 1, Len(adjusted)) } } : TRUE

(* The callback of adjustedData.map for bubble i: its new position, and   *)
(* whether it raised hasOverlap.                                           *)
Moved(adjusted, i) ==
  CHOOSE moved \in
    { [ x |-> Clamp(adjusted[i].x + push.x), y |-> Clamp(adjusted[i].y + push.y),
        hasOverlap |-> push.hasOverlap ] :
        push \in { PushLoop(adjusted, i, 1, Len(adjusted)) } } : TRUE

(* One iteration of the loop: adjustedData.map over the positions of the   *)
(* previous iteration, and the hasOverlap flag it leaves.                  *)
RelaxPass(adjusted) ==
  CHOOSE pass \in
    { [ points |-> [ i \in 1..Len(adjusted) |-> [ x |-> moved[i].x, y |-> moved[i].y ] ] \o << >>,
        hasOverlap |-> \E i \in 1..Len(adjusted) : moved[i].hasOverlap ] :
        moved \in { [ i \in 1..Len(adjusted) |-> Moved(adjusted, i) ] \o << >> } } : TRUE

(* let adjustedData = normalizedData.map(item => ({ ...item, ... })) *)
StartPoints(normalized) ==
  [ k \in 1..Len(normalized) |->
      [ x |-> Fixed(normalized[k].cagrIndex), y |-> Fixed(normalized[k].marketShareIndex) ] ]

(* for (let iteration = 0; iteration < maxIterations; iteration++) { ...   *)
(* if (!hasOverlap) break }                                                *)
RECURSIVE RelaxLoop(_, _)
RelaxLoop(adjusted, iteration) ==
  IF iteration >= maxIterations THEN adjusted
  ELSE LET pass == RelaxPass(adjusted)
       IN  IF pass.hasOverlap THEN RelaxLoop(pass.points, iteration + 1) ELSE pass.points

(* item.incrementalOpportunity || 1000 *)
EmittedOpportunity(incrementalOpportunity) ==
  IF OrZero(incrementalOpportunity) = Whole(0) THEN Whole(1000) ELSE incrementalOpportunity

(* const bubbleChartDataByCategory = useMemo(...) *)
bubbleChartDataByCategory(filtered, f) ==
  IF f.segmentType = "" THEN << >>
  ELSE LET normalized == normalizedData(rawBubbleData(filtered, f.segmentType))
           adjusted == RelaxLoop(StartPoints(normalized), 0)
       IN  [ k \in 1..Len(normalized) |->
               [ region |-> normalized[k].region,
                 cagrIndex |-> Ratio(adjusted[k].x, Scale),
                 marketShareIndex |-> Ratio(adjusted[k].y, Scale),
                 incrementalOpportunity |->
                   EmittedOpportunity(normalized[k].incrementalOpportunity),
                 colorIndex |-> k - 1 ] ]

(***************************************************************************)
(* State.                                                                  *)
(*   dataCache         the module-level cache: null or a record array      *)
(*   seed, recordId    the generator's locals, as the last run left them   *)
(*   genCount          runs of generateComprehensiveData so far            *)
(*   lastGen, prevGen  the arrays returned by the last two runs (null: no  *)
(*                     such run, or the run threw)                         *)
(*   nGet              getData calls so far                                *)
(*   sinceClear        getData calls since the last clearDataCache         *)
(*   threwSinceClear   a run has thrown since the last clearDataCache      *)
(*   ret               outcome of the most recent getData call             *)
(*   returned          every value getData has returned                    *)
(*   calls             getData/clearDataCache calls made outside the page  *)
(*   pc, mData, mLoading, mFilters, mYoyFilters                            *)
(*                     per page mount: position in the load sequence and   *)
(*                     the component's state                               *)
(*   timers            mounts whose 500 ms load timer is pending, in the   *)
(*                     order the timers were set                           *)
(***************************************************************************)
VARIABLES dataCache, seed, recordId, genCount, lastGen, prevGen, nGet, sinceClear,
          threwSinceClear, ret, returned, calls,
          pc, mData, mLoading, mFilters, mYoyFilters, timers

(***************************************************************************)
(*   client            who drives the run: "loader" (mounts and cache      *)
(*                     calls), "library" (a caller of filterDataframe),    *)
(*                     "standard" (the loaded page's standard view),       *)
(*                     "views" (its three other views), "analysis" and     *)
(*                     "metrics" (the views over measured records),        *)
(*                     "layout" (the relaxation loop), "generator" (one    *)
(*                     generation run), "bubbles" (the bubble chart) or    *)
(*                     "frame" (the arrays shared with the callers)        *)
(*   fData, fFilters   the caller's record array and FilterOptions, the    *)
(*                     latter as Object.entries lists it                   *)
(*   fChain            the filter states passed to filterDataframe so far, *)
(*                     each call filtering the previous call's result      *)
(*   fOut, fPrev       the last call's result and its input                *)
(*   data, filters, incrementalFilters, attractivenessFilters, yoyFilters, *)
(*   activeTab         state of one loaded page                            *)
(*   filteredResult    current value of the filteredData memo              *)
(*   yearValue         the selection last emitted by the Year dropdown     *)
(*   defaultsDue       the nested 0 ms timer has not fired yet             *)
(*   lastDropped       the last region or country selection of a view was  *)
(*                     a region selection that removed a selected country  *)
(***************************************************************************)
VARIABLES client, fData, fFilters, fChain, fOut, fPrev,
          data, filters, incrementalFilters, attractivenessFilters, yoyFilters,
          activeTab, filteredResult, yearValue, defaultsDue, lastDropped

(* The relaxation loop of bubbleChartDataByCategory, one iteration at a    *)
(* time: the positions, the loop counter, the flag of the last iteration   *)
(* and whether the loop is running ("idle": no loop, "loop", "done").      *)
VARIABLES adjustedData, iteration, hasOverlap, layoutPc

layoutVars == << adjustedData, iteration, hasOverlap, layoutPc >>

(* One run of generateComprehensiveData, one turn of the innermost loop at *)
(* a time: whether the loops are running ("idle": no run, "loop",          *)
(* "returned"), the 1-based positions of the seven loop variables in their *)
(* lists, and the record of the last data.push.  The run's locals are seed *)
(* and recordId.                                                           *)
VARIABLES genPc, at, pushed

genVars == << genPc, at, pushed >>

libVars == << fData, fFilters, fChain, fOut, fPrev >>

pageVars == << data, filters, incrementalFilters, attractivenessFilters, yoyFilters,
               activeTab, filteredResult, yearValue, defaultsDue, lastDropped >>

cacheVars == << dataCache, seed, recordId, genCount, lastGen, prevGen, nGet, sinceClear,
                threwSinceClear, ret, returned >>

mountVars == << pc, mData, mLoading, mFilters, mYoyFilters, timers >>

Mounts == 1..NumMounts

(* A value that is null or an array. *)
Null == [ null |-> TRUE, arr |-> << >> ]

Arr(a) == [ null |-> FALSE, arr |-> a ]

(* Variant: the guard of getData always taken. *)
FalsyAlways(v) == TRUE

(* !dataCache: null is falsy, every array (the empty one too) is truthy. *)
Falsy(v) == v.null

NoThrow == 0 - 1

(* Variant: seed and recordId hoisted out of the function, so a run       *)
(* continues from where the previous one stopped.                          *)
GenStartStale == [ seed |-> seed, recordId |-> recordId ]

(* let recordId = 100000; let seed = 42: fresh locals on every call. *)
GenStart == [ seed |-> InitialSeed, recordId |-> InitialRecordId ]

(* One call of generateComprehensiveData.  th = NoThrow: the loops run to  *)
(* the end and the array is returned; th = k: an exception leaves the      *)
(* function after k iterations.                                            *)
generateComprehensiveData(th) ==
  LET n == IF th = NoThrow THEN Len(Combos) ELSE th
      r == GenLoop(1, n, GenStart.seed, GenStart.recordId, << >>)
  IN  [ threw |-> th # NoThrow, data |-> r.data, seed |-> r.seed, recordId |-> r.recordId ]

(* Variant: the catch block leaves the cache null. *)
CatchValueNull == Null

(* catch (error) { dataCache = [] } *)
CatchValue == Arr(<< >>)

(* getData, as the effect of one call on the cache and on the history.     *)
getData(th) ==
  /\ nGet' = nGet + 1
  /\ sinceClear' = sinceClear + 1
  /\ IF Falsy(dataCache)
       THEN LET g == generateComprehensiveData(th)
            IN  /\ dataCache' = IF g.threw THEN CatchValue ELSE Arr(g.data)
                /\ seed' = g.seed
                /\ recordId' = g.recordId
                /\ genCount' = genCount + 1
                /\ prevGen' = lastGen
                /\ lastGen' = IF g.threw THEN Null ELSE Arr(g.data)
                /\ threwSinceClear' = (threwSinceClear \/ g.threw)
       ELSE /\ dataCache' = dataCache
            /\ UNCHANGED << seed, recordId, genCount, lastGen, prevGen, threwSinceClear >>
  /\ ret' = [ threw |-> FALSE, val |-> dataCache' ]
  /\ returned' = returned \cup {dataCache'}

(* Variant: the cache is cleared to an empty array. *)
ClearedCacheEmpty == Arr(<< >>)

(* dataCache = null *)
ClearedCache == Null

clearDataCache ==
  /\ dataCache' = ClearedCache
  /\ sinceClear' = 0
  /\ threwSinceClear' = FALSE
  /\ UNCHANGED << seed, recordId, genCount, lastGen, prevGen, nGet, ret, returned >>

(***************************************************************************)
(* The page component's state and its load effect.                         *)
(***************************************************************************)
InitialFilters ==
  [ year |-> << >>, byRegion |-> << >>, byServiceType |-> << >>, byEndUser |-> << >>,
    byDeliveryChannel |-> << >>, byBusinessModel |-> << >>, productType |-> << >>,
    bladeMaterial |-> << >>, handleLength |-> << >>, application |-> << >>,
    endUser |-> << >>, distributionChannelType |-> << >>, distributionChannel |-> << >>,
    marketEvaluation |-> "By Value" ]

InitialYoyFilters == [ region |-> << >>, country |-> << >>, segmentType |-> << >> ]

(* [...new Set(generatedData.map(d => d.year))].sort(): the default sort   *)
(* compares decimal strings, which orders four-digit years numerically.    *)
AvailableYears(generatedData) == SortedSeq({ generatedData[i].year : i \in 1..Len(generatedData) })

DefaultYears(generatedData) ==
  LET availableYears == AvailableYears(generatedData)
      has(y) == y \in Range(availableYears)
  IN  IF has(2024) /\ has(2025) THEN << Num(2024), Num(2025) >>
      ELSE IF has(2025) THEN << Num(2025) >>
      ELSE IF has(2024) THEN << Num(2024) >>
      ELSE IF Len(availableYears) > 0 THEN << Num(availableYears[Len(availableYears)]) >>
      ELSE << >>

DefaultFilters(generatedData) ==
  [ InitialFilters EXCEPT
      !.year = DefaultYears(generatedData),
      !.byRegion = << "U.S.", "Canada" >>,
      !.byServiceType = << "Personal Branding & Executive Consulting",
                           "Digital Presence & Branding Consulting" >>,
      !.byEndUser = << "Senior Executives & Professionals",
                       "Corporate Teams (HR, Sales, Leadership)" >>,
      !.byDeliveryChannel = << "In-Person Consulting", "Virtual / Online Consulting" >>,
      !.byBusinessModel = << "Premium One-on-One Consulting",
                             "Corporate Contracts / Retainers" >> ]

DefaultYoyFilters ==
  [ region |-> << "North America" >>, country |-> << "U.S.", "Canada" >>, segmentType |-> << >> ]

(* useEffect(() => { clearDataCache(); setLoading(true); setTimeout(..., 500) }, []) *)
Mount(m) ==
  /\ pc[m] = "unmounted"
  /\ clearDataCache
  /\ mLoading' = [mLoading EXCEPT ![m] = TRUE]
  /\ timers' = Append(timers, m)
  /\ pc' = [pc EXCEPT ![m] = "waiting"]
  /\ UNCHANGED << calls, mData, mFilters, mYoyFilters, client, layoutVars, genVars, libVars, pageVars >>

(* The 500 ms callback: timers of equal delay fire in the order they were  *)
(* set.  try { getData(); setData; setLoading(false); setTimeout(..., 0) } *)
(* catch { setData([]); setLoading(false) }                                *)
LoadTimer(m, th) ==
  /\ timers # << >>
  /\ m = Head(timers)
  /\ getData(th)
  /\ timers' = Tail(timers)
  /\ mLoading' = [mLoading EXCEPT ![m] = FALSE]
  /\ IF ret'.threw
       THEN /\ mData' = [mData EXCEPT ![m] = Arr(<< >>)]
            /\ pc' = [pc EXCEPT ![m] = "failed"]
       ELSE /\ mData' = [mData EXCEPT ![m] = ret'.val]
            /\ pc' = [pc EXCEPT ![m] = "loaded"]
  /\ UNCHANGED << calls, mFilters, mYoyFilters, client, layoutVars, genVars, libVars, pageVars >>

(* Variant: the defaults are also applied while the load timer is pending. *)
DefaultsTimerEarly(m) ==
  /\ pc[m] \in {"waiting", "loaded"}
  /\ mFilters' = [mFilters EXCEPT ![m] = DefaultFilters(mData[m].arr)]
  /\ mYoyFilters' = [mYoyFilters EXCEPT ![m] = DefaultYoyFilters]
  /\ pc' = [pc EXCEPT ![m] = "ready"]
  /\ UNCHANGED << cacheVars, calls, mData, mLoading, timers, client, layoutVars, genVars, libVars, pageVars >>

(* The nested 0 ms callback: setFilters(defaults); setYoyFilters(defaults) *)
DefaultsTimer(m) ==
  /\ pc[m] = "loaded"
  /\ mFilters' = [mFilters EXCEPT ![m] = DefaultFilters(mData[m].arr)]
  /\ mYoyFilters' = [mYoyFilters EXCEPT ![m] = DefaultYoyFilters]
  /\ pc' = [pc EXCEPT ![m] = "ready"]
  /\ UNCHANGED << cacheVars, calls, mData, mLoading, timers, client, layoutVars, genVars, libVars, pageVars >>

(* getData and clearDataCache called by any other importer of the module.  *)
GetDataCall(th) ==
  /\ calls < MaxCalls
  /\ calls' = calls + 1
  /\ getData(th)
  /\ UNCHANGED << mountVars, client, layoutVars, genVars, libVars, pageVars >>

ClearDataCacheCall ==
  /\ calls < MaxCalls
  /\ calls' = calls + 1
  /\ clearDataCache
  /\ UNCHANGED << mountVars, client, layoutVars, genVars, libVars, pageVars >>

InitCache ==
  /\ dataCache = Null
  /\ seed = InitialSeed
  /\ recordId = InitialRecordId
  /\ genCount = 0
  /\ lastGen = Null
  /\ prevGen = Null
  /\ nGet = 0
  /\ sinceClear = 0
  /\ threwSinceClear = FALSE
  /\ ret = [ threw |-> FALSE, val |-> Null ]
  /\ returned = {}
  /\ calls = 0

InitMounts ==
  /\ pc = [m \in Mounts |-> "unmounted"]
  /\ mData = [m \in Mounts |-> Arr(<< >>)]
  /\ mLoading = [m \in Mounts |-> TRUE]
  /\ mFilters = [m \in Mounts |-> InitialFilters]
  /\ mYoyFilters = [m \in Mounts |-> InitialYoyFilters]
  /\ timers = << >>

InitialIncrementalFilters ==
  [ region |-> << "North America" >>, country |-> << "U.S.", "Canada" >> ]

InitialAttractivenessFilters ==
  [ region |-> << "North America" >>, country |-> << "U.S.", "Canada" >>,
    segmentType |-> "", selectedCategory |-> "", serviceType |-> << >>,
    endUserType |-> << >>, deliveryChannel |-> << >>, businessModel |-> << >> ]

(* No call of filterDataframe yet. *)
InitLib ==
  /\ fData = << >>
  /\ fFilters = << >>
  /\ fChain = << >>
  /\ fOut = << >>
  /\ fPrev = << >>

(* The component as useState creates it. *)
InitPage ==
  /\ data = << >>
  /\ filters = InitialFilters
  /\ incrementalFilters = InitialIncrementalFilters
  /\ attractivenessFilters = InitialAttractivenessFilters
  /\ yoyFilters = InitialYoyFilters
  /\ activeTab = "standard"
  /\ filteredResult = << >>
  /\ yearValue = << >>
  /\ defaultsDue = FALSE
  /\ lastDropped = FALSE

(* No relaxation loop is running. *)
NoLayout ==
  /\ adjustedData = << >>
  /\ iteration = 0
  /\ hasOverlap = FALSE
  /\ layoutPc = "idle"

(* No generation run is being followed. *)
NoGen ==
  /\ genPc = "idle"
  /\ at = << >>
  /\ pushed = << >>

vars == << cacheVars, calls, mountVars, client, libVars, pageVars, layoutVars, genVars >>

Init == client = "loader" /\ InitCache /\ InitMounts /\ InitLib /\ InitPage /\ NoLayout /\ NoGen

Next ==
  \/ \E m \in Mounts : Mount(m)
  \/ \E m \in Mounts : LoadTimer(m, NoThrow)
  \/ \E m \in Mounts : DefaultsTimer(m)
  \/ GetDataCall(NoThrow)
  \/ ClearDataCacheCall

Spec == Init /\ [][Next]_vars

(* The same program when a generation run may be cut short by an exception *)
(* (the environment's fault: the code's own tables are complete).          *)
Throws == {NoThrow} \cup (0..(Len(Combos) - 1))

NextFault ==
  \/ \E m \in Mounts : Mount(m)
  \/ \E m \in Mounts, th \in Throws : LoadTimer(m, th)
  \/ \E m \in Mounts : DefaultsTimer(m)
  \/ \E th \in Throws : GetDataCall(th)
  \/ ClearDataCacheCall

SpecFault == Init /\ [][NextFault]_vars

(***************************************************************************)
(* Properties of the cache (Spec, SpecFault).                              *)
(***************************************************************************)

(* C1: a getData call runs generateComprehensiveData exactly when it is    *)
(* the first getData call of the program or the first one after a          *)
(* clearDataCache; every other getData call leaves the cache as it is and  *)
(* returns the cached array; no other step runs the generator.             *)
C1_GenerateOnlyAfterClear ==
  [][ /\ (nGet' = nGet + 1 /\ sinceClear = 0) => genCount' = genCount + 1
      /\ (nGet' = nGet + 1 /\ sinceClear > 0) =>
            /\ genCount' = genCount
            /\ ~dataCache.null
            /\ dataCache' = dataCache
            /\ ret'.val = dataCache
      /\ (nGet' = nGet) => genCount' = genCount ]_vars

C1_Witness == genCount = 2 /\ sinceClear >= 2 /\ nGet >= 4

(* C2: two consecutive generation runs (the cache was cleared between      *)
(* them) return the same record sequence, field for field.                 *)
C2_RunsIdentical ==
  (genCount >= 2 /\ ~lastGen.null /\ ~prevGen.null) => lastGen = prevGen

C2_Witness == genCount >= 2 /\ ~lastGen.null /\ ~prevGen.null /\ Len(lastGen.arr) >= 2

(* C3: whatever the interleaving of page mounts (clearDataCache at once,   *)
(* getData from the timer), every getData call returns a non-null array    *)
(* with one record per loop combination, all calls return the same         *)
(* content, and every loaded page holds that array.                        *)
C3_MountsSeeSameCompleteData ==
  /\ \A v \in returned : ~v.null /\ Len(v.arr) = Len(Combos)
  /\ Cardinality(returned) <= 1
  /\ \A m \in Mounts : pc[m] # "failed"
  /\ \A m \in Mounts : pc[m] \in {"loaded", "ready"} => mData[m] \in returned

(* Every page mounted before the first load timer fired. *)
C3_Witness ==
  /\ \A m \in Mounts : pc[m] \in {"loaded", "ready"}
  /\ genCount = 1
  /\ calls = 0

(* C4: getData never throws; a call whose generation run threw returns the *)
(* empty array and caches it; from then until the next clearDataCache      *)
(* every getData call returns the empty array without running the          *)
(* generator again.                                                        *)
C4_FailClosedNoRetry ==
  [][ /\ (nGet' = nGet + 1) => ~ret'.threw
      /\ (nGet' = nGet + 1 /\ genCount' = genCount + 1 /\ lastGen'.null) =>
            (ret'.val = Arr(<< >>) /\ dataCache' = Arr(<< >>))
      /\ (nGet' = nGet + 1 /\ threwSinceClear) =>
            (genCount' = genCount /\ ret'.val = Arr(<< >>)) ]_vars

C4_Witness ==
  threwSinceClear /\ sinceClear >= 2 /\ ret.val = Arr(<< >>) /\ dataCache = Arr(<< >>)

(***************************************************************************)
(* The filter engine: filterDataframe.                                     *)
(***************************************************************************)
NumberFields == { "recordId", "year" }

StringFields ==
  { "region", "country", "serviceType", "endUserType", "deliveryChannel", "businessModel",
    "productType", "bladeMaterial", "handleLength", "application", "endUser",
    "distributionChannelType", "distributionChannel", "brand", "company" }

(* item[field as keyof ShovelMarketData] *)
FieldValue(item, field) ==
  IF field \in NumberFields THEN Num(item[field])
  ELSE IF field \in StringFields THEN Str(item[field])
  ELSE Undefined

(* Variant: the year is compared like every other field. *)
KeepItemStrict(item, field, values) == Includes(values, FieldValue(item, field))

(* The callback of filtered.filter(item => ...). *)
KeepItem(item, field, values) ==
  LET itemValue == FieldValue(item, field)
  IN  IF field = "year" /\ itemValue.t = "number"
        THEN \E i \in 1..Len(values) : String(values[i]) = String(itemValue)
        ELSE Includes(values, itemValue)

(* Variant: the kept items are collected in reverse. *)
RECURSIVE KeptItemsReversed(_, _, _)
KeptItemsReversed(items, field, values) ==
  IF items = << >> THEN << >>
  ELSE KeptItemsReversed(Tail(items), field, values)
         \o (IF KeepItem(Head(items), field, values) THEN << Head(items) >> ELSE << >>)

(* Variant: the traversal starts at the second element. *)
RECURSIVE KeptItemsSkipFirst(_, _, _)
KeptItemsSkipFirst(items, field, values) ==
  IF items = << >> THEN << >>
  ELSE SelectSeq(Tail(items), LAMBDA item : KeepItem(item, field, values))

(* filtered.filter(...): the items that pass, in their order. *)
RECURSIVE KeptItems(_, _, _)
KeptItems(items, field, values) ==
  IF items = << >> THEN << >>
  ELSE (IF KeepItem(Head(items), field, values) THEN << Head(items) >> ELSE << >>)
         \o KeptItems(Tail(items), field, values)

(* Variant: an empty selection filters too. *)
ConstrainsAlways(values) == TRUE

(* values && Array.isArray(values) && values.length > 0; every modelled    *)
(* selection is an array.                                                  *)
Constrains(values) == Len(values) > 0

(* Variant: every field filters the caller's array, the last one wins. *)
RECURSIVE FilterLoopFromData(_, _, _)
FilterLoopFromData(d, filtered, entries) ==
  IF entries = << >> THEN filtered
  ELSE FilterLoopFromData(d,
         IF Constrains(Head(entries).values)
           THEN KeptItems(d, Head(entries).field, Head(entries).values)
           ELSE filtered,
         Tail(entries))

(* for (const [field, values] of Object.entries(filters)) *)
RECURSIVE FilterLoop(_, _, _)
FilterLoop(d, filtered, entries) ==
  IF entries = << >> THEN filtered
  ELSE FilterLoop(d,
         IF Constrains(Head(entries).values)
           THEN KeptItems(filtered, Head(entries).field, Head(entries).values)
           ELSE filtered,
         Tail(entries))

(* let filtered = [...data]; the loop; return filtered *)
filterDataframe(d, f) == FilterLoop(d, d, f)

(***************************************************************************)
(* The page's standard view: uniqueOptions, filteredData and the handlers  *)
(* of the Year and By Region dropdowns (the By Service Type, By End User,  *)
(* By Delivery Channel and By Business Model dropdowns have the handler of *)
(* By Region, with their own key).                                         *)
(***************************************************************************)
(* uniqueOptions.years, as the Year dropdown lists them (decimal strings). *)
YearOptions(d) ==
  LET ys == SortedSeq({ d[i].year : i \in 1..Len(d) })
  IN  [ i \in 1..Len(ys) |-> NatToString(ys[i]) ]

ByRegionOptions ==
  << "U.S.", "Canada", "U.K.", "Germany", "France", "Italy", "Spain", "Russia", "Rest of Europe" >>

(* The dimensions filteredData tests after the year, in the code's order:  *)
(* the selection list of filters and the record field it is matched with.  *)
PageDims ==
  << [ key |-> "byRegion", field |-> "country" ],
     [ key |-> "byServiceType", field |-> "serviceType" ],
     [ key |-> "byEndUser", field |-> "endUserType" ],
     [ key |-> "byDeliveryChannel", field |-> "deliveryChannel" ],
     [ key |-> "byBusinessModel", field |-> "businessModel" ],
     [ key |-> "productType", field |-> "productType" ],
     [ key |-> "bladeMaterial", field |-> "bladeMaterial" ],
     [ key |-> "handleLength", field |-> "handleLength" ],
     [ key |-> "application", field |-> "application" ],
     [ key |-> "endUser", field |-> "endUser" ],
     [ key |-> "distributionChannelType", field |-> "distributionChannelType" ],
     [ key |-> "distributionChannel", field |-> "distributionChannel" ] >>

(* filters.year.includes(d.year) *)
YearKept(items, sel) == SelectSeq(items, LAMBDA d : Includes(sel, Num(d.year)))

(* filters.<key>.includes(d.<field>) *)
DimKept(items, field, sel) == SelectSeq(items, LAMBDA d : Includes(sel, d[field]))

RECURSIVE PageLoop(_, _, _)
PageLoop(filtered, f, dims) ==
  IF dims = << >> THEN filtered
  ELSE PageLoop(IF Len(f[Head(dims).key]) > 0
                  THEN DimKept(filtered, Head(dims).field, f[Head(dims).key])
                  ELSE filtered,
                f, Tail(dims))

(* const filteredData = useMemo(() => { ... }, [data, filters]) *)
filteredData(d, f) ==
  PageLoop(IF Len(f.year) > 0 THEN YearKept(d, f.year) ELSE d, f, PageDims)

(* The value a multi-select dropdown emits: at most MaxSel of its options, *)
(* in the order the options are listed.                                    *)
Selections(options) ==
  { [ i \in 1..Cardinality(S) |-> options[SortedSeq(S)[i]] ] :
      S \in { T \in SUBSET (1..Len(options)) : Cardinality(T) <= MaxSel } }

(* onChange of the Year dropdown: year: value.map(v => Number(v)) *)
YearOnChange(value) ==
  /\ client \in {"standard", "analysis"}
  /\ filters' = [filters EXCEPT !.year = [ i \in 1..Len(value) |-> Number(value[i]) ]]
  /\ filteredResult' = filteredData(data, filters')
  /\ yearValue' = value
  /\ UNCHANGED << cacheVars, calls, mountVars, client, layoutVars, genVars, libVars, data, incrementalFilters,
                  attractivenessFilters, yoyFilters, activeTab, defaultsDue, lastDropped >>

(* onChange of a segment dropdown: the list is stored as emitted. *)
SegmentOnChange(key, value) ==
  /\ client \in {"standard", "analysis"}
  /\ filters' = [filters EXCEPT ![key] = value]
  /\ filteredResult' = filteredData(data, filters')
  /\ UNCHANGED << cacheVars, calls, mountVars, client, layoutVars, genVars, libVars, data, incrementalFilters,
                  attractivenessFilters, yoyFilters, activeTab, yearValue, defaultsDue, lastDropped >>

(* The nested 0 ms timer of the load effect on this page. *)
PageDefaults ==
  /\ client \in {"standard", "views"}
  /\ defaultsDue
  /\ defaultsDue' = FALSE
  /\ filters' = DefaultFilters(data)
  /\ yoyFilters' = DefaultYoyFilters
  /\ filteredResult' = filteredData(data, filters')
  /\ yearValue' = [ i \in 1..Len(filters'.year) |-> String(filters'.year[i]) ]
  /\ UNCHANGED << cacheVars, calls, mountVars, client, layoutVars, genVars, libVars, data, incrementalFilters,
                  attractivenessFilters, activeTab, lastDropped >>

(***************************************************************************)
(* Callers of filterDataframe: the arrays and filter states they pass.     *)
(***************************************************************************)
GeneratedData == generateComprehensiveData(NoThrow).data

Pool == Range(GeneratedData)

InputArrays == UNION { [1..n -> Pool] : n \in 0..MaxLen }

FilterFields == { "year", "region" }

(* The values a selection list may hold: for the year, each generated year *)
(* as a number and as its decimal string; for the region, each generated   *)
(* region.                                                                 *)
RECURSIVE YearValues(_)
YearValues(ys) ==
  IF ys = << >> THEN << >>
  ELSE << Num(Head(ys)), Str(NatToString(Head(ys))) >> \o YearValues(Tail(ys))

RECURSIVE Strs(_)
Strs(names) == IF names = << >> THEN << >> ELSE << Str(Head(names)) >> \o Strs(Tail(names))

ValuesFor(field) ==
  IF field = "year" THEN YearValues(Prefix(years, NYears)) ELSE Strs(Prefix(regions, NRegions))

FilterEntries ==
  UNION { { [ field |-> fld, values |-> v ] : v \in Selections(ValuesFor(fld)) } :
          fld \in FilterFields }

FilterStates ==
  { q \in UNION { [1..n -> FilterEntries] : n \in 0..MaxKeys } :
      \A i, j \in 1..Len(q) : i # j => q[i].field # q[j].field }

(* The filter state holding only the i-th entry of f. *)
Single(f, i) == << f[i] >>

(* One call filterDataframe(input, g), the input being the caller's array  *)
(* on the first call and the previous result afterwards.                   *)
FilterDataframeCall(g) ==
  /\ client = "library"
  /\ Len(fChain) < MaxChain
  /\ LET input == IF fChain = << >> THEN fData ELSE fOut
     IN  /\ fPrev' = input
         /\ fOut' = filterDataframe(input, g)
  /\ fChain' = Append(fChain, g)
  /\ UNCHANGED << cacheVars, calls, mountVars, client, layoutVars, genVars, fData, fFilters, pageVars >>

InitFilter ==
  /\ InitCache
  /\ InitMounts
  /\ NoLayout
  /\ NoGen
  /\ \/ /\ client = "library"
        /\ fData \in InputArrays
        /\ fFilters \in FilterStates
        /\ fChain = << >>
        /\ fOut = << >>
        /\ fPrev = << >>
        /\ InitPage
     \/ /\ client = "standard"
        /\ InitLib
        /\ data = GeneratedData
        /\ filters = InitialFilters
        /\ incrementalFilters = InitialIncrementalFilters
        /\ attractivenessFilters = InitialAttractivenessFilters
        /\ yoyFilters = InitialYoyFilters
        /\ activeTab = "standard"
        /\ filteredResult = filteredData(data, filters)
        /\ yearValue = << >>
        /\ defaultsDue = TRUE
        /\ lastDropped = FALSE

NextFilter ==
  \/ FilterDataframeCall(fFilters)
  \/ \E i \in 1..MaxKeys : i <= Len(fFilters) /\ FilterDataframeCall(Single(fFilters, i))
  \/ \E value \in Selections(YearOptions(data)) : YearOnChange(value)
  \/ \E value \in Selections(ByRegionOptions) : SegmentOnChange("byRegion", value)
  \/ PageDefaults

SpecFilter == InitFilter /\ [][NextFilter]_vars

(***************************************************************************)
(* Properties of the filter engine (SpecFilter).                           *)
(***************************************************************************)
(* The filter state of the last filterDataframe call. *)
LastFilter == fChain[Len(fChain)]

(* A selection list selects the year y when it holds y as a number or as   *)
(* its decimal string.                                                     *)
YearSelected(values, y) ==
  Num(y) \in Range(values) \/ Str(NatToString(y)) \in Range(values)

(* The record's value for the entry's dimension is in the entry's list. *)
MemberOf(r, e) ==
  IF e.field = "year" THEN YearSelected(e.values, r.year)
  ELSE FieldValue(r, e.field) \in Range(e.values)

(* The record satisfies every non-empty entry of g, except those of field x. *)
PassesExcept(r, g, x) ==
  \A k \in 1..Len(g) : (g[k].field # x /\ Len(g[k].values) > 0) => MemberOf(r, g[k])

Passes(r, g) == PassesExcept(r, g, "")

(* The same for the page's filters. *)
PagePassesDims(r, f) ==
  \A k \in 1..Len(PageDims) :
     Len(f[PageDims[k].key]) > 0 => r[PageDims[k].field] \in Range(f[PageDims[k].key])

PagePasses(r, f) ==
  /\ Len(f.year) > 0 => Num(r.year) \in Range(f.year)
  /\ PagePassesDims(r, f)

RECURSIVE IsSubsequence(_, _)
IsSubsequence(a, b) ==
  IF a = << >> THEN TRUE
  ELSE IF b = << >> THEN FALSE
  ELSE IF Head(a) = Head(b) THEN IsSubsequence(Tail(a), Tail(b))
  ELSE IsSubsequence(a, Tail(b))

(* C5: a record of the input is in the output exactly when, for every      *)
(* dimension with a non-empty selection, its value is selected; empty and  *)
(* absent dimensions do not constrain; the dimensions combine with AND.    *)
(* Both for filterDataframe and for the page's filteredData.               *)
C5_KeptIffEveryDimensionSelects ==
  /\ (client = "library" /\ fChain # << >>) =>
        \A i \in 1..Len(fPrev) :
           (fPrev[i] \in Range(fOut)) <=> Passes(fPrev[i], LastFilter)
  /\ client = "standard" =>
        \A i \in 1..Len(data) :
           (data[i] \in Range(filteredResult)) <=> PagePasses(data[i], filters)

(* One call with two constraining dimensions that keeps a record and       *)
(* drops another.                                                          *)
C5_Witness ==
  /\ client = "library"
  /\ Len(fChain) = 1
  /\ Len(LastFilter) = 2
  /\ \A k \in 1..2 : Len(LastFilter[k].values) > 0
  /\ fOut # << >>
  /\ Len(fOut) < Len(fPrev)

(* C6: the output is a subsequence of the input: same relative order,      *)
(* nothing added, nothing duplicated.                                      *)
C6_OutputIsSubsequence ==
  /\ (client = "library" /\ fChain # << >>) => IsSubsequence(fOut, fPrev)
  /\ client = "standard" => IsSubsequence(filteredResult, data)

C6_Witness ==
  /\ client = "library"
  /\ Len(fChain) = 1
  /\ \E k \in 1..Len(LastFilter) : Len(LastFilter[k].values) > 0
  /\ Len(fOut) >= 2
  /\ fOut[1] # fOut[2]

(* C7: filtering the result of filterDataframe again with the same filter  *)
(* state returns that result.                                              *)
C7_FilterIdempotent ==
  (client = "library" /\ Len(fChain) >= 2 /\ fChain[Len(fChain) - 1] = LastFilter) =>
     fOut = fPrev

C7_Witness ==
  /\ client = "library"
  /\ Len(fChain) = 2
  /\ fChain[1] = fChain[2]
  /\ fOut # << >>
  /\ Len(fOut) < Len(fData)

(* The page's filters with every selection emptied but those of the given  *)
(* keys.                                                                   *)
PageOnly(f, keys) ==
  [ k \in DOMAIN f |->
      IF k \in keys \/ k = "marketEvaluation" THEN f[k] ELSE << >> ]

PageKeys == { "year" } \cup { PageDims[k].key : k \in 1..Len(PageDims) }

(* C8: for two single-dimension filters A and B (different dimensions),    *)
(* A then B, B then A and one call with both constraints (listed in either *)
(* order) give the same sequence; the same for the page's filteredData.    *)
C8_SequentialEqualsCombined ==
  /\ \A i, j \in 1..MaxKeys :
        ( /\ client = "library"
          /\ i # j /\ i <= Len(fFilters) /\ j <= Len(fFilters)
          /\ fChain = << Single(fFilters, i), Single(fFilters, j) >> ) =>
             /\ fOut = filterDataframe(fData, << fFilters[i], fFilters[j] >>)
             /\ fOut = filterDataframe(fData, << fFilters[j], fFilters[i] >>)
             /\ fOut = filterDataframe(filterDataframe(fData, Single(fFilters, j)),
                                       Single(fFilters, i))
  /\ client = "standard" =>
        \A a, b \in PageKeys :
           a # b =>
             filteredData(filteredData(data, PageOnly(filters, {a})), PageOnly(filters, {b}))
               = filteredData(data, PageOnly(filters, {a, b}))

C8_Witness ==
  /\ client = "library"
  /\ Len(fFilters) = 2
  /\ fChain = << Single(fFilters, 1), Single(fFilters, 2) >>
  /\ \A k \in 1..2 : Len(fFilters[k].values) > 0
  /\ fOut # << >>
  /\ Len(fOut) < Len(fData)

(* C9: a record whose year is selected is kept by the year filter whether  *)
(* the selection holds the year as a number or as its decimal string       *)
(* (given that the record satisfies the other dimensions): in              *)
(* filterDataframe, and in the standard view, where the Year dropdown      *)
(* holds decimal strings and shows the selection it emitted.               *)
C9_YearMatchesNumberOrString ==
  /\ (client = "library" /\ fChain # << >>) =>
        \A i \in 1..Len(fPrev), k \in 1..Len(LastFilter) :
           ( /\ LastFilter[k].field = "year"
             /\ YearSelected(LastFilter[k].values, fPrev[i].year)
             /\ PassesExcept(fPrev[i], LastFilter, "year") ) =>
                fPrev[i] \in Range(fOut)
  /\ client = "standard" =>
        /\ \A i \in 1..Len(data) :
              ( /\ NatToString(data[i].year) \in Range(yearValue)
                /\ PagePassesDims(data[i], filters) ) =>
                   data[i] \in Range(filteredResult)
        /\ yearValue = [ i \in 1..Len(filters.year) |-> String(filters.year[i]) ]

(* A record kept although its year is selected as a string only. *)
C9_Witness ==
  /\ client = "library"
  /\ fChain # << >>
  /\ \E i \in 1..Len(fPrev), k \in 1..Len(LastFilter) :
        /\ LastFilter[k].field = "year"
        /\ Str(NatToString(fPrev[i].year)) \in Range(LastFilter[k].values)
        /\ Num(fPrev[i].year) \notin Range(LastFilter[k].values)
        /\ fPrev[i] \in Range(fOut)

(***************************************************************************)
(* The incremental, attractiveness and YoY views: their region and country *)
(* dropdowns.                                                              *)
(***************************************************************************)
allowedRegions == << "North America", "Europe" >>

(* The region-to-country mapping of the views (the same literal in the     *)
(* three option memos and in the YoY region handler).                      *)
regionCountryMap ==
  [ r \in Range(allowedRegions) |->
      IF r = "North America" THEN << "U.S.", "Canada" >>
      ELSE << "U.K.", "Germany", "France", "Italy", "Spain", "Russia", "Rest of Europe" >> ]

(* The countries of the mapping in the order Array.prototype.sort() gives  *)
(* them (UTF-16 code units).                                               *)
SortedCountries ==
  << "Canada", "France", "Germany", "Italy", "Rest of Europe", "Russia", "Spain", "U.K.", "U.S." >>

Sort(list) == SelectSeq(SortedCountries, LAMBDA c : c \in Range(list))

RECURSIVE CountriesOf(_)
CountriesOf(regionList) ==
  IF regionList = << >> THEN << >>
  ELSE (IF Head(regionList) \in DOMAIN regionCountryMap
          THEN regionCountryMap[Head(regionList)] ELSE << >>)
         \o CountriesOf(Tail(regionList))

(* availableCountries of the option memos, before sorting. *)
AvailableCountries(regionSel) ==
  IF Len(regionSel) > 0 THEN CountriesOf(regionSel) ELSE CountriesOf(allowedRegions)

(* incrementalFilterOptions / attractivenessFilterOptions: regions, countries *)
RegionOptions(d) == IF Len(d) = 0 THEN << >> ELSE allowedRegions

CountryOptions(d, regionSel) == IF Len(d) = 0 THEN << >> ELSE Sort(AvailableCountries(regionSel))

(* yoyFilterOptions.countryGroupedOptions, the groups' items in a row. *)
YoyCountryOptions(d, regionSel) == IF Len(d) = 0 THEN << >> ELSE AvailableCountries(regionSel)

SetActiveTab(tab) ==
  /\ client \in {"views", "metrics"}
  /\ activeTab = "standard"
  /\ activeTab' = tab
  /\ UNCHANGED << cacheVars, calls, mountVars, client, layoutVars, genVars, libVars, data, filters,
                  incrementalFilters, attractivenessFilters, yoyFilters, filteredResult,
                  yearValue, defaultsDue, lastDropped >>

(* Variant: the region handler keeps the country selection. *)
IncrementalAfterRegionKeep(value) == [ incrementalFilters EXCEPT !.region = value ]

(* setIncrementalFilters({ region: value, country: [] }) *)
IncrementalAfterRegion(value) == [ region |-> value, country |-> << >> ]

IncrementalRegionOnChange(value) ==
  /\ client \in {"views", "metrics"}
  /\ activeTab = "incremental"
  /\ incrementalFilters' = IncrementalAfterRegion(value)
  /\ lastDropped' = (incrementalFilters.country # << >>)
  /\ UNCHANGED << cacheVars, calls, mountVars, client, layoutVars, genVars, libVars, data, filters,
                  attractivenessFilters, yoyFilters, activeTab, filteredResult, yearValue,
                  defaultsDue >>

IncrementalCountryOnChange(value) ==
  /\ client = "views"
  /\ activeTab = "incremental"
  /\ incrementalFilters' = [incrementalFilters EXCEPT !.country = value]
  /\ lastDropped' = FALSE
  /\ UNCHANGED << cacheVars, calls, mountVars, client, layoutVars, genVars, libVars, data, filters,
                  attractivenessFilters, yoyFilters, activeTab, filteredResult, yearValue,
                  defaultsDue >>

(* setAttractivenessFilters({ ...attractivenessFilters, region: value, country: [] }) *)
AttractivenessRegionOnChange(value) ==
  /\ client \in {"views", "metrics"}
  /\ activeTab = "attractiveness"
  /\ attractivenessFilters' = [attractivenessFilters EXCEPT !.region = value, !.country = << >>]
  /\ lastDropped' = (attractivenessFilters.country # << >>)
  /\ UNCHANGED << cacheVars, calls, mountVars, client, layoutVars, genVars, libVars, data, filters,
                  incrementalFilters, yoyFilters, activeTab, filteredResult, yearValue,
                  defaultsDue >>

AttractivenessCountryOnChange(value) ==
  /\ client = "views"
  /\ activeTab = "attractiveness"
  /\ attractivenessFilters' = [attractivenessFilters EXCEPT !.country = value]
  /\ lastDropped' = FALSE
  /\ UNCHANGED << cacheVars, calls, mountVars, client, layoutVars, genVars, libVars, data, filters,
                  incrementalFilters, yoyFilters, activeTab, filteredResult, yearValue,
                  defaultsDue >>

(* Variant: every selected country survives a region change. *)
validCountriesAll(countrySel, newRegions) == countrySel

(* yoyFilters.country.filter(country => newRegions.length === 0 ||          *)
(*   newRegions.some(region => regionCountryMap[region]?.includes(country))) *)
validCountries(countrySel, newRegions) ==
  SelectSeq(countrySel,
            LAMBDA country :
              \/ Len(newRegions) = 0
              \/ \E i \in 1..Len(newRegions) :
                    /\ newRegions[i] \in DOMAIN regionCountryMap
                    /\ country \in Range(regionCountryMap[newRegions[i]]))

YoyRegionOnChange(value) ==
  /\ client = "views"
  /\ activeTab = "yoy"
  /\ yoyFilters' = [yoyFilters EXCEPT !.region = value,
                                      !.country = validCountries(yoyFilters.country, value)]
  /\ lastDropped' = (yoyFilters'.country # yoyFilters.country)
  /\ UNCHANGED << cacheVars, calls, mountVars, client, layoutVars, genVars, libVars, data, filters,
                  incrementalFilters, attractivenessFilters, activeTab, filteredResult,
                  yearValue, defaultsDue >>

YoyCountryOnChange(value) ==
  /\ client \in {"views", "metrics"}
  /\ activeTab = "yoy"
  /\ yoyFilters' = [yoyFilters EXCEPT !.country = value]
  /\ lastDropped' = FALSE
  /\ UNCHANGED << cacheVars, calls, mountVars, client, layoutVars, genVars, libVars, data, filters,
                  incrementalFilters, attractivenessFilters, activeTab, filteredResult,
                  yearValue, defaultsDue >>

(* The page once the load timer has fired: data set, loading false, the    *)
(* defaults timer pending.  A run visits one of the three views.           *)
InitView ==
  /\ client = "views"
  /\ InitCache
  /\ InitMounts
  /\ NoLayout
  /\ NoGen
  /\ InitLib
  /\ data = GeneratedData
  /\ filters = InitialFilters
  /\ incrementalFilters = InitialIncrementalFilters
  /\ attractivenessFilters = InitialAttractivenessFilters
  /\ yoyFilters = InitialYoyFilters
  /\ activeTab = "standard"
  /\ filteredResult = filteredData(data, filters)
  /\ yearValue = << >>
  /\ defaultsDue = TRUE
  /\ lastDropped = FALSE

NextView ==
  \/ \E tab \in {"incremental", "attractiveness", "yoy"} : SetActiveTab(tab)
  \/ PageDefaults
  \/ \E value \in Selections(RegionOptions(data)) : IncrementalRegionOnChange(value)
  \/ \E value \in Selections(CountryOptions(data, incrementalFilters.region)) :
        IncrementalCountryOnChange(value)
  \/ \E value \in Selections(RegionOptions(data)) : AttractivenessRegionOnChange(value)
  \/ \E value \in Selections(CountryOptions(data, attractivenessFilters.region)) :
        AttractivenessCountryOnChange(value)
  \/ \E value \in Selections(RegionOptions(data)) : YoyRegionOnChange(value)
  \/ \E value \in Selections(YoyCountryOptions(data, yoyFilters.region)) :
        YoyCountryOnChange(value)

SpecView == InitView /\ [][NextView]_vars

(***************************************************************************)
(* Properties of the views (SpecView).                                     *)
(***************************************************************************)
(* Every selected country belongs to the mapping of some selected region,  *)
(* unless no region is selected.                                           *)
CountriesWithinRegions(f) ==
  Len(f.region) > 0 =>
    \A i \in 1..Len(f.country) :
       \E j \in 1..Len(f.region) :
          /\ f.region[j] \in DOMAIN regionCountryMap
          /\ f.country[i] \in Range(regionCountryMap[f.region[j]])

(* C10: in the incremental, attractiveness and YoY views, after any        *)
(* sequence of region and country selections (countries picked from the    *)
(* offered options), a non-empty region selection covers every selected    *)
(* country.                                                                *)
C10_CountriesWithinSelectedRegions ==
  /\ CountriesWithinRegions(incrementalFilters)
  /\ CountriesWithinRegions(attractivenessFilters)
  /\ CountriesWithinRegions(yoyFilters)

(* A YoY region selection that removed one selected country and kept       *)
(* another.                                                                *)
C10_Witness ==
  /\ activeTab = "yoy"
  /\ lastDropped
  /\ yoyFilters.region # << >>
  /\ yoyFilters.country # << >>

(***************************************************************************)
(* The standard view over measured records (SpecAnalysis): the page holds  *)
(* an array of records with whole-number measures, and the user changes    *)
(* the Market Evaluation and the By Service Type selection.                *)
(***************************************************************************)
MaxRecords == 2

MeasuredYears == << 2024, 2025 >>

MeasuredCountries == << "U.S.", "Canada" >>

MeasuredServiceTypes == Prefix(serviceTypes, 2)

(* marketValueUsd and volumeUnits of a measured record. *)
Measures == { << 0, 3 >>, << 1000, 0 >>, << 3000, 7 >> }

MeasuredRecord(year, country, serviceType, m) ==
  [ year |-> year, region |-> "North America", country |-> country,
    serviceType |-> serviceType, endUserType |-> endUserTypes[1],
    deliveryChannel |-> deliveryChannels[1], businessModel |-> businessModels[1],
    marketValueUsd |-> m[1], volumeUnits |-> m[2] ]

MeasuredPool ==
  { MeasuredRecord(y, c, st, m) :
      y \in Range(MeasuredYears), c \in Range(MeasuredCountries),
      st \in Range(MeasuredServiceTypes), m \in Measures }

MeasuredArrays == UNION { [1..n -> MeasuredPool] : n \in 0..MaxRecords }

(* The service types the By Service Type dropdown is exercised with. *)
ServiceTypeOptions == Prefix(serviceTypes, 3)

(* onChange of the Market Evaluation select. *)
MarketEvaluationOnChange(value) ==
  /\ client = "analysis"
  /\ filters' = [filters EXCEPT !.marketEvaluation = value]
  /\ filteredResult' = filteredData(data, filters')
  /\ UNCHANGED << cacheVars, calls, mountVars, client, layoutVars, genVars, libVars, data, incrementalFilters,
                  attractivenessFilters, yoyFilters, activeTab, yearValue, defaultsDue, lastDropped >>

InitAnalysis ==
  /\ client = "analysis"
  /\ InitCache
  /\ InitMounts
  /\ NoLayout
  /\ NoGen
  /\ InitLib
  /\ data \in MeasuredArrays
  /\ filters = InitialFilters
  /\ incrementalFilters = InitialIncrementalFilters
  /\ attractivenessFilters = InitialAttractivenessFilters
  /\ yoyFilters = InitialYoyFilters
  /\ activeTab = "standard"
  /\ filteredResult = filteredData(data, filters)
  /\ yearValue = << >>
  /\ defaultsDue = FALSE
  /\ lastDropped = FALSE

NextAnalysis ==
  \/ \E value \in { "By Value", "By Volume" } : MarketEvaluationOnChange(value)
  \/ \E value \in Selections(ServiceTypeOptions) : SegmentOnChange("byServiceType", value)

SpecAnalysis == InitAnalysis /\ [][NextAnalysis]_vars

(* The memo values of the current render. *)
AnalysisNow == analysisData(filteredResult, filters)

KpisNow == kpis(filteredResult, filters)

(***************************************************************************)
(* Properties of the pivots (SpecAnalysis).                                *)
(***************************************************************************)
(* The metric of a record as the pivot claims state it. *)
Metric(d) ==
  IF filters.marketEvaluation = "By Volume" THEN Whole(d.volumeUnits)
  ELSE Ratio(d.marketValueUsd, 1000)

(* The metric summed over the records of an array that Keep accepts. *)
RECURSIVE MetricSum(_, _)
MetricSum(Keep(_), records) ==
  IF records = << >> THEN Whole(0)
  ELSE Plus(IF Keep(Head(records)) THEN Metric(Head(records)) ELSE Whole(0),
            MetricSum(Keep, Tail(records)))

RECURSIVE RowSum(_, _)
RowSum(row, segments) ==
  IF segments = << >> THEN Whole(0)
  ELSE Plus(row[Head(segments)], RowSum(row, Tail(segments)))

YearsOf(records) == { records[i].year : i \in 1..Len(records) }

(* The four pivots of an analysis value: rows, segment list, record field. *)
Pivots(a) ==
  << [ rows |-> a.serviceTypeChartData, segments |-> a.serviceTypes,
       field |-> "serviceType" ],
     [ rows |-> a.endUserTypeChartData, segments |-> a.endUserTypes,
       field |-> "endUserType" ],
     [ rows |-> a.deliveryChannelChartData, segments |-> a.deliveryChannels,
       field |-> "deliveryChannel" ],
     [ rows |-> a.businessModelChartData, segments |-> a.businessModels,
       field |-> "businessModel" ] >>

StackedPivots(a) ==
  << [ stacked |-> a.serviceTypeStackedData, field |-> "serviceType",
       key |-> "byServiceType" ],
     [ stacked |-> a.endUserTypeStackedData, field |-> "endUserType",
       key |-> "byEndUser" ],
     [ stacked |-> a.deliveryChannelStackedData, field |-> "deliveryChannel",
       key |-> "byDeliveryChannel" ],
     [ stacked |-> a.businessModelStackedData, field |-> "businessModel",
       key |-> "byBusinessModel" ] >>

(* The segments a pivot may list: the selection when there is one, else    *)
(* the values of the field among the filtered records.                     *)
Universe(field, key) ==
  IF Len(filters[key]) > 0 THEN Range(filters[key])
  ELSE { filteredResult[i][field] : i \in 1..Len(filteredResult) }

(* C12: the segment list returned with the stacked data is exactly the     *)
(* segments of the universe whose value is greater than 0 in some year     *)
(* row, and the value of a segment in a year row is the metric summed over *)
(* the records of that single year.                                        *)
C12_StackedActiveSegments ==
  LET pivots == StackedPivots(AnalysisNow)
  IN
  \A p \in 1..Len(pivots) :
    LET rows == pivots[p].stacked.chartData
        segments == pivots[p].stacked.segments
        field == pivots[p].field
        universe == Universe(field, pivots[p].key)
    IN  /\ Len(segments) = Cardinality(Range(segments))
        /\ Range(segments) =
             { s \in universe : \E i \in 1..Len(rows) : GreaterThan(rows[i][s], Whole(0)) }
        /\ { rows[i]["year"] : i \in 1..Len(rows) } =
             { NatToString(y) : y \in YearsOf(filteredResult) }
        /\ \A i \in 1..Len(rows) : \A y \in YearsOf(filteredResult) :
             rows[i]["year"] = NatToString(y) =>
               \A s \in universe :
                 rows[i][s] = MetricSum(LAMBDA d : d.year = y /\ d[field] = s, filteredResult)

(* Two years with different values of one segment, and a segment of the    *)
(* universe left out of the list because it is 0 in every row.             *)
C12_Witness ==
  /\ client = "analysis"
  /\ Len(filteredResult) = 2
  /\ filteredResult[1].year # filteredResult[2].year
  /\ filteredResult[1].serviceType = filteredResult[2].serviceType
  /\ Metric(filteredResult[1]) # Metric(filteredResult[2])
  /\ GreaterThan(Metric(filteredResult[1]), Whole(0))
  /\ GreaterThan(Metric(filteredResult[2]), Whole(0))
  /\ Len(filters.byServiceType) = 2
  /\ LET a == AnalysisNow
     IN  /\ Len(a.serviceTypeStackedData.segments) = 1
         /\ Len(a.serviceTypeStackedData.chartData) = 2

MetricYears == << 2024, 2025, 2032 >>

MetricValues == { 0, 1000, 3000 }

MetricPool ==
  { MeasuredRecord(y, "U.S.", st, << v, 0 >>) :
      y \in Range(MetricYears), st \in Range(MeasuredServiceTypes), v \in MetricValues }

MetricArrays == UNION { [1..n -> MetricPool] : n \in 0..MaxRecords }

(* attractivenessFilterOptions.segmentTypes *)
SegmentTypeOptions(d) == IF Len(d) = 0 THEN << >> ELSE segmentCategories

(* yoyFilterOptions.segmentCategories, the first two of them. *)
YoySegmentOptions(d) == IF Len(d) = 0 THEN << >> ELSE Prefix(segmentCategories, 2)

(* The countries of the YoY Country dropdown that occur in the records. *)
YoyCountryChoices(d, regionSel) ==
  SelectSeq(YoyCountryOptions(d, regionSel), LAMBDA c : c \in Range(MeasuredCountries))

(* onChange of the Segmentation dropdown: selectedCategory is cleared. *)
AttractivenessSegmentationOnChange(value) ==
  /\ client \in {"metrics", "bubbles"}
  /\ activeTab = "attractiveness"
  /\ attractivenessFilters' =
       [attractivenessFilters EXCEPT !.segmentType = value, !.selectedCategory = ""]
  /\ lastDropped' = FALSE
  /\ UNCHANGED << cacheVars, calls, mountVars, client, layoutVars, genVars, libVars, data, filters,
                  incrementalFilters, yoyFilters, activeTab, filteredResult, yearValue,
                  defaultsDue >>

(* onChange of the YoY Segment Type dropdown. *)
YoySegmentTypeOnChange(value) ==
  /\ client = "metrics"
  /\ activeTab = "yoy"
  /\ yoyFilters' = [yoyFilters EXCEPT !.segmentType = value]
  /\ lastDropped' = FALSE
  /\ UNCHANGED << cacheVars, calls, mountVars, client, layoutVars, genVars, libVars, data, filters,
                  incrementalFilters, attractivenessFilters, activeTab, filteredResult,
                  yearValue, defaultsDue >>

InitMetrics ==
  /\ client = "metrics"
  /\ InitCache
  /\ InitMounts
  /\ NoLayout
  /\ NoGen
  /\ InitLib
  /\ data \in MetricArrays
  /\ filters = InitialFilters
  /\ incrementalFilters = InitialIncrementalFilters
  /\ attractivenessFilters = InitialAttractivenessFilters
  /\ yoyFilters = InitialYoyFilters
  /\ activeTab = "standard"
  /\ filteredResult = filteredData(data, filters)
  /\ yearValue = << >>
  /\ defaultsDue = FALSE
  /\ lastDropped = FALSE

NextMetrics ==
  \/ \E tab \in {"incremental", "attractiveness", "yoy"} : SetActiveTab(tab)
  \/ \E value \in Selections(RegionOptions(data)) : IncrementalRegionOnChange(value)
  \/ \E value \in Selections(RegionOptions(data)) : AttractivenessRegionOnChange(value)
  \/ \E value \in Range(SegmentTypeOptions(data)) : AttractivenessSegmentationOnChange(value)
  \/ \E value \in Selections(YoyCountryChoices(data, yoyFilters.region)) :
        YoyCountryOnChange(value)
  \/ \E value \in Selections(YoySegmentOptions(data)) : YoySegmentTypeOnChange(value)

SpecMetrics == InitMetrics /\ [][NextMetrics]_vars

(* The memo values of the current render. *)
IncrementalNow == filteredIncrementalData(data, incrementalFilters)

WaterfallNow == waterfallData(IncrementalNow)

AttractivenessNow == filteredAttractivenessData(data, attractivenessFilters)

BubbleNow == bubbleChartDataByCategory(AttractivenessNow, attractivenessFilters)

YoyNow == yoyCagrDataByEntity(data, yoyFilters)

(***************************************************************************)
(* Properties of the waterfall, the YoY series and the bubbles             *)
(* (SpecMetrics).                                                          *)
(***************************************************************************)
(* marketValueUsd / 1000 summed over the records that Keep accepts. *)
RECURSIVE MillionsSum(_, _)
MillionsSum(Keep(_), records) ==
  IF records = << >> THEN Whole(0)
  ELSE Plus(IF Keep(Head(records)) THEN Ratio(Head(records).marketValueUsd, 1000) ELSE Whole(0),
            MillionsSum(Keep, Tail(records)))

YoyEntityNames == IF Len(yoyFilters.country) > 0 THEN yoyFilters.country ELSE yoyFilters.region

(* The records of one entity among the records the YoY view keeps. *)
YoyEntityRecords(name) ==
  SelectSeq(filteredYoyData(data, yoyFilters),
            LAMBDA d : IF Len(yoyFilters.country) > 0 THEN d.country = name
                       ELSE d.region = name)

(* The total of one segment in one year of an entity. *)
SegmentTotal(name, year, segment) ==
  MillionsSum(LAMBDA d : d.year = year /\ \E k \in 1..4 : d[SegmentFields[k]] = segment,
              YoyEntityRecords(name))

(* C15: in every YoY series of every entity the value at the first year is *)
(* 0, and the value at a later position is (value[i] - value[i-1]) /       *)
(* value[i-1] x 100 when the segment's total at position i-1 is greater    *)
(* than 0 and 0 otherwise, position i-1 being the preceding entry of the   *)
(* sorted list of the years present for the entity.                        *)
C15_YoySeries ==
  LET charts == YoyNow
      named == SelectSeq(YoyEntityNames,
                         LAMBDA name : Cardinality(YearsOf(YoyEntityRecords(name))) >= 2)
  IN  /\ Len(charts) = Len(named)
      /\ \A c \in 1..Len(charts) :
           LET name == named[c]
               sortedYears == SortedSeq(YearsOf(YoyEntityRecords(name)))
               series == charts[c].data
           IN  /\ Len(series) = Len(sortedYears)
               /\ \A i \in 1..Len(series) :
                    /\ series[i]["year"] = NatToString(sortedYears[i])
                    /\ \A s \in Range(charts[c].segmentTypes) :
                         IF i = 1 THEN series[i][s] = Whole(0)
                         ELSE LET previous == SegmentTotal(name, sortedYears[i - 1], s)
                                  current == SegmentTotal(name, sortedYears[i], s)
                              IN  IF GreaterThan(previous, Whole(0))
                                    THEN series[i][s] =
                                           Times(Over(Minus(current, previous), previous),
                                                 Whole(100))
                                    ELSE series[i][s] = Whole(0)

(* One entity with two years: a segment that grows by 200 percent, one     *)
(* that falls by 100 percent, and one that starts from 0 and so reads 0.   *)
C15_Witness ==
  /\ client = "metrics"
  /\ activeTab = "yoy"
  /\ Len(data) = 2
  /\ data[1].serviceType # data[2].serviceType
  /\ data[2].marketValueUsd > 0
  /\ LET charts == YoyNow
     IN  /\ Len(charts) = 1
         /\ Len(charts[1].data) = 2
         /\ charts[1].data[2][data[1].endUserType] = Whole(200)
         /\ charts[1].data[2][data[1].serviceType] = Whole(0 - 100)
         /\ charts[1].data[2][data[2].serviceType] = Whole(0)

C19_EmptyRecordSet ==
  /\ Len(filteredResult) = 0 =>
       /\ AnalysisNow = EmptyAnalysisData
       /\ KpisNow.totalValue = "N/A"
  /\ Len(AttractivenessNow) = 0 => BubbleNow = << >>
  /\ Len(filteredYoyData(data, yoyFilters)) = 0 => YoyNow = << >>
  /\ Len(IncrementalNow) = 0 =>
       LET w == WaterfallNow
       IN  /\ w.chartData[1].baseValue = Whole(57159)
           /\ w.chartData[1].totalValue = Whole(57159)
           /\ \A k \in 1..7 :
                /\ w.chartData[k + 1].incrementalValue =
                     Ratio(<< 26384, 28504, 30556, 32310, 34329, 36742, 38851 >>[k], 10)
                /\ ~IsNaN(w.chartData[k + 1].totalValue)
           /\ w.incrementalOpportunity = Ratio(227676, 10)
           /\ w.chartData[9].totalValue = Ratio(799266, 10)

(* Records are loaded, and the selections of a view leave it none: a       *)
(* segmentation is chosen for the bubbles, or a country for the YoY        *)
(* charts, or a region for the waterfall.                                  *)
C19_Witness ==
  /\ client = "metrics"
  /\ \/ /\ activeTab = "attractiveness"
        /\ attractivenessFilters.segmentType # ""
        /\ Len(data) > 0
        /\ Len(AttractivenessNow) = 0
     \/ /\ activeTab = "yoy"
        /\ Len(yoyFilters.country) > 0
        /\ Len(data) > 0
        /\ Len(filteredYoyData(data, yoyFilters)) = 0
     \/ /\ activeTab = "incremental"
        /\ Len(data) > 0
        /\ Len(IncrementalNow) = 0

(***************************************************************************)
(* The relaxation loop on its own (SpecLayout): the positions of a         *)
(* segmentation of numItems categories, one iteration per step.            *)
(***************************************************************************)
MaxItems == 9

(* A segmentation with enough categories to crowd the plot. *)
CrowdedItems == 132

ItemCounts == (1..MaxItems) \cup {CrowdedItems}

(* rawBubbleData of numItems categories.  cagr and marketShare follow from *)
(* the index alone; the opportunities, which only order the items, fall    *)
(* from the first category to the last.                                    *)
LayoutRaw(numItems) ==
  [ k \in 1..numItems |->
      [ region |-> k,
        cagr |-> IndexCagr(k - 1, numItems),
        marketShare |-> IndexShare(k - 1, numItems),
        incrementalOpportunity |-> Whole((numItems - k) + 1) ] ] \o << >>

(* The loop about to start on a segmentation of one of the given sizes. *)
LayoutStart(counts) ==
  /\ client = "layout"
  /\ InitCache
  /\ InitMounts
  /\ InitLib
  /\ InitPage
  /\ \E numItems \in counts :
       adjustedData = StartPoints(normalizedData(LayoutRaw(numItems)))
  /\ iteration = 0
  /\ hasOverlap = FALSE
  /\ layoutPc = "loop"
  /\ NoGen

InitLayout == LayoutStart(ItemCounts)

(* One turn of for (let iteration = 0; iteration < maxIterations;          *)
(* iteration++) { ...; if (!hasOverlap) break }                            *)
RelaxIteration ==
  /\ client = "layout"
  /\ layoutPc = "loop"
  /\ iteration < maxIterations
  /\ \E pass \in { RelaxPass(adjustedData) } :
         /\ adjustedData' = pass.points
         /\ hasOverlap' = pass.hasOverlap
         /\ iteration' = IF pass.hasOverlap THEN iteration + 1 ELSE iteration
         /\ layoutPc' = IF pass.hasOverlap /\ iteration + 1 < maxIterations
                          THEN "loop" ELSE "done"
  /\ UNCHANGED << cacheVars, calls, mountVars, client, genVars, libVars, pageVars >>

NextLayout == RelaxIteration

SpecLayout == InitLayout /\ [][NextLayout]_vars

(* The square of the distance between output points i and j. *)
SquaredDistance(i, j) ==
  LET dx == adjustedData[i].x - adjustedData[j].x
      dy == adjustedData[i].y - adjustedData[j].y
  IN  (dx * dx) + (dy * dy)

(* The loop has left by its break. *)
StoppedEarly == layoutPc = "done" /\ ~hasOverlap

SpecLayoutFair == LayoutStart(1..MaxItems) /\ [][NextLayout]_vars /\ WF_vars(RelaxIteration)

(* C23: the relaxation loop terminates.  It counts at most 100 turns; a    *)
(* turn that finds a pair of points with a distance strictly between 0.001 *)
(* and 3.5 is followed by the next one, the first turn that finds none is  *)
(* the last and leaves every position as it was, and the loop is left      *)
(* either by that break or with the counter at 100.                        *)
C23_LoopTerminates ==
  /\ [](iteration <= maxIterations)
  /\ [](StoppedEarly => iteration < maxIterations)
  /\ [](layoutPc = "done" => (~hasOverlap \/ iteration = maxIterations))
  /\ [][(layoutPc = "loop" /\ ~hasOverlap') =>
          (layoutPc' = "done" /\ iteration' = iteration /\ adjustedData' = adjustedData)]_vars
  /\ [][(layoutPc = "loop" /\ hasOverlap') =>
          (iteration' = iteration + 1 /\ (layoutPc' = "done" <=> iteration' = maxIterations))]_vars
  /\ <>(layoutPc = "done")

(* The loop has been left by its break after several turns on several      *)
(* points.                                                                 *)
C23_Witness == StoppedEarly /\ iteration > 0 /\ Len(adjustedData) > 1

(* Every coordinate of every point lies between lo and hi thousandths. *)
CoordinatesWithin(lo, hi) ==
  \A i \in 1..Len(adjustedData) :
     adjustedData[i].x \in lo..hi /\ adjustedData[i].y \in lo..hi

(* C24: before the first turn of the loop both coordinates of every point  *)
(* lie in [0, 10], and are 5 where the values of the axis have no range (a *)
(* single point); after every turn and at the end they lie in [-2, 12].    *)
C24_CoordinatesBounded ==
  client = "layout" =>
    /\ (layoutPc = "loop" /\ iteration = 0) => CoordinatesWithin(0, 10 * Scale)
    /\ (layoutPc = "loop" /\ iteration = 0 /\ Len(adjustedData) = 1) =>
         CoordinatesWithin(5 * Scale, 5 * Scale)
    /\ CoordinatesWithin(0 - (2 * Scale), 12 * Scale)

(* A turn has put a point on the upper border. *)
C24_Witness ==
  /\ client = "layout"
  /\ iteration > 0
  /\ \E i \in 1..Len(adjustedData) : adjustedData[i].x = 12 * Scale

(***************************************************************************)
(* Properties of the generated records (Spec).                             *)
(***************************************************************************)
(* C20: the i-th record of a generated array, counting from 0, has         *)
(* recordId 100000 + i; the identifiers are therefore unique and strictly  *)
(* increasing in generation order.                                         *)
C20_RecordIdsSequential ==
  \A g \in {dataCache, lastGen} :
     ~g.null =>
        \A i \in 1..Len(g.arr) : g.arr[i].recordId = 100000 + (i - 1)

(* A second run has filled the cache with more than one record. *)
C20_Witness ==
  /\ ~dataCache.null
  /\ Len(dataCache.arr) > 1
  /\ genCount = 2

(***************************************************************************)
(* One generation run followed turn by turn (SpecGen).                     *)
(***************************************************************************)
(* Variant: the country list does not follow the region. *)
countriesOfFirstRegion(region) == countryMap[regions[1]]

(* const countries = countryMap[region] || [] *)
countries(region) == IF region \in DOMAIN countryMap THEN countryMap[region] ELSE << >>

(* The lists of the seven nested loops, outermost first, for the loop      *)
(* positions idx: the country list is the one of the region at idx[2].     *)
LoopLists(idx) ==
  << years, regions, countries(regions[idx[2]]), serviceTypes, endUserTypes,
     deliveryChannels, businessModels >>

FirstTurn == << 1, 1, 1, 1, 1, 1, 1 >>

(* Variant: the loops inside the one that moves on do not start again. *)
NextTurnNoRestart(idx) ==
  LET lists == LoopLists(idx)
      open == { p \in 1..7 : idx[p] < Len(lists[p]) }
  IN  IF open = {} THEN << >>
      ELSE LET p == CHOOSE q \in open : \A r \in open : r <= q
           IN  [ q \in 1..7 |-> IF q = p THEN idx[q] + 1 ELSE idx[q] ]

(* The loop positions of the next turn: the innermost loop that has an     *)
(* element left moves on and every loop inside it starts again; << >> when *)
(* every loop is at its last element.                                      *)
NextTurn(idx) ==
  LET lists == LoopLists(idx)
      open == { p \in 1..7 : idx[p] < Len(lists[p]) }
  IN  IF open = {} THEN << >>
      ELSE LET p == CHOOSE q \in open : \A r \in open : r <= q
           IN  [ q \in 1..7 |-> IF q < p THEN idx[q] ELSE IF q = p THEN idx[q] + 1 ELSE 1 ]

(* The loop variables at the positions idx. *)
LoopVariables(idx) ==
  LET lists == LoopLists(idx)
  IN  [ year |-> lists[1][idx[1]], region |-> lists[2][idx[2]], country |-> lists[3][idx[3]],
        serviceType |-> lists[4][idx[4]], endUserType |-> lists[5][idx[5]],
        deliveryChannel |-> lists[6][idx[6]], businessModel |-> lists[7][idx[7]] ]

InitGen ==
  /\ client = "generator"
  /\ InitCache
  /\ InitMounts
  /\ InitLib
  /\ InitPage
  /\ NoLayout
  /\ genPc = "loop"
  /\ at = FirstTurn
  /\ pushed = << >>

(* One turn of the innermost loop: the draws, data.push and recordId++. *)
GenTurn ==
  /\ client = "generator"
  /\ genPc = "loop"
  /\ LET b == LoopBody(LoopVariables(at), seed, recordId)
         next == NextTurn(at)
     IN  /\ pushed' = b.rec
         /\ seed' = b.seed
         /\ recordId' = recordId + 1
         /\ at' = IF next = << >> THEN at ELSE next
         /\ genPc' = IF next = << >> THEN "returned" ELSE "loop"
  /\ UNCHANGED << dataCache, genCount, lastGen, prevGen, nGet, sinceClear, threwSinceClear,
                  ret, returned, calls, mountVars, client, layoutVars, libVars, pageVars >>

NextGen == GenTurn

SpecGen == InitGen /\ [][NextGen]_vars

(***************************************************************************)
(* Properties of a generation run (SpecGen).                               *)
(***************************************************************************)
(* A record has been pushed in this run. *)
HasPushed == client = "generator" /\ recordId > InitialRecordId

(* C21: the country of every generated record is one of the countries that *)
(* countryMap lists for the record's region.                               *)
C21_CountryOfRegion ==
  HasPushed => pushed.country \in Range(countryMap[pushed.region])

(* A record of a later country of a later region has been pushed. *)
C21_Witness ==
  HasPushed /\ pushed.region = "Europe" /\ pushed.country = "Germany"

(* C22: when applicationSubtypes lists subtypes for the record's endUser,  *)
(* the record's distributionChannel is one of them; when it lists none,    *)
(* the distributionChannel is the endUser itself.                          *)
C22_DistributionChannel ==
  HasPushed =>
    LET subtypes == applicationSubtypes[pushed.endUser]
    IN  IF Len(subtypes) > 0
          THEN pushed.distributionChannel \in Range(subtypes)
          ELSE pushed.distributionChannel = pushed.endUser

(* A record whose endUser has no subtypes has been pushed. *)
C22_Witness ==
  /\ HasPushed
  /\ pushed.endUser = "Others (Bioenergy & Chemicals etc.)"
  /\ pushed.distributionChannel = pushed.endUser

(* The (region, country) pairs in the order the two loops visit them. *)
RegionCountries ==
  FlatMap(LAMBDA region :
            [ i \in 1..Len(countryMap[region]) |->
                [ region |-> region, country |-> countryMap[region][i] ] ],
          regions)

(* The k-th combination, counting from 0, when the combinations are        *)
(* ordered with the year outermost and the businessModel innermost.        *)
Combination(k) ==
  LET k5 == k \div Len(businessModels)
      k4 == k5 \div Len(deliveryChannels)
      k3 == k4 \div Len(endUserTypes)
      k2 == k3 \div Len(serviceTypes)
      k1 == k2 \div Len(RegionCountries)
  IN  [ year |-> years[k1 + 1],
        region |-> RegionCountries[(k2 % Len(RegionCountries)) + 1].region,
        country |-> RegionCountries[(k2 % Len(RegionCountries)) + 1].country,
        serviceType |-> serviceTypes[(k3 % Len(serviceTypes)) + 1],
        endUserType |-> endUserTypes[(k4 % Len(endUserTypes)) + 1],
        deliveryChannel |-> deliveryChannels[(k5 % Len(deliveryChannels)) + 1],
        businessModel |-> businessModels[(k % Len(businessModels)) + 1] ]

(* The loop variables a record carries. *)
CombinationOf(rec) ==
  [ year |-> rec.year, region |-> rec.region, country |-> rec.country,
    serviceType |-> rec.serviceType, endUserType |-> rec.endUserType,
    deliveryChannel |-> rec.deliveryChannel, businessModel |-> rec.businessModel ]

(* C26: the record pushed k-th, counting from 0, carries the k-th          *)
(* combination of (year, region and country, serviceType, endUserType,     *)
(* deliveryChannel, businessModel) in nested-loop order, so that no        *)
(* combination is missing or repeated; the run returns after               *)
(* 15 x 20 x 7 x 7 x 3 x 6 = 264,600 records, each with one drawn value    *)
(* of every legacy dimension.                                              *)
C26_OneRecordPerCombination ==
  /\ Len(years) = 15 /\ Len(RegionCountries) = 20 /\ Len(serviceTypes) = 7
  /\ Len(endUserTypes) = 7 /\ Len(deliveryChannels) = 3 /\ Len(businessModels) = 6
  /\ HasPushed =>
       /\ recordId - InitialRecordId <= 264600
       /\ pushed.recordId = recordId - 1
       /\ CombinationOf(pushed) = Combination(pushed.recordId - InitialRecordId)
       /\ pushed.productType \in Range(productTypes)
       /\ pushed.bladeMaterial \in Range(bladeMaterials)
       /\ pushed.handleLength \in Range(handleLengths)
       /\ pushed.application \in Range(applications)
       /\ pushed.endUser \in Range(endUsers)
  /\ (client = "generator" /\ genPc = "returned") => recordId - InitialRecordId = 264600

(* The run has returned, its last record carrying the last element of      *)
(* every loop.                                                             *)
C26_Witness ==
  /\ client = "generator"
  /\ genPc = "returned"
  /\ pushed.year = 2035
  /\ pushed.country = "South Africa"
  /\ pushed.businessModel = "Licensing / Affiliate Programs"

(* C27: the seed stays an integer of 0..233279 and follows                 *)
(* (seed * 9301 + 49297) mod 233280, so that every draw divided by 233280  *)
(* lies in [0, 1); every drawn dimension of a record is an element of its  *)
(* list, none is undefined, and every multiplier table has the key looked  *)
(* up.                                                                     *)
C27_SeedAndIndexesInRange ==
  /\ seed \in 0..(Modulus - 1)
  /\ seed <= 230000 => seededRandom(seed) = ((seed * 9301) + 49297) % 233280
  /\ seededRandom(seed) \in 0..(Modulus - 1)
  /\ HasPushed =>
       /\ \A k \in 1..Len(pushed.draws) : pushed.draws[k] \in 0..(Modulus - 1)
       /\ pushed.productType \in Range(productTypes)
       /\ pushed.bladeMaterial \in Range(bladeMaterials)
       /\ pushed.handleLength \in Range(handleLengths)
       /\ pushed.application \in Range(applications)
       /\ pushed.endUser \in Range(endUsers)
       /\ pushed.distributionChannel \in
            Range(Subtypes(pushed.endUser)) \cup {pushed.endUser}
       /\ pushed.brand \in Range(brands)
       /\ pushed.company \in Range(companies)
       /\ pushed.productType \in Range(productTypeMultipliers)
       /\ pushed.bladeMaterial \in Range(bladeMaterialMultipliers)
       /\ pushed.application \in Range(applicationMultipliers)
       /\ pushed.endUser \in Range(endUserMultipliers)
       /\ pushed.region \in Range(regionMultipliers)

(* After many draws a record holds the last element of several lists. *)
C27_Witness ==
  /\ HasPushed
  /\ recordId - InitialRecordId > 1000
  /\ pushed.productType = productTypes[Len(productTypes)]
  /\ pushed.brand = brands[Len(brands)]
  /\ pushed.company = companies[Len(companies)]

(* The 1-based position of x in list. *)
PositionIn(list, x) == CHOOSE i \in 1..Len(list) : list[i] = x

(* C29: the company of every generated record is the entry of companies    *)
(* at the position of the record's brand in brands.                        *)
C29_BrandCompanyPaired ==
  HasPushed => PositionIn(companies, pushed.company) = PositionIn(brands, pushed.brand)

(***************************************************************************)
(* The bubble chart over record sets that differ in their values only      *)
(* (SpecBubble): the page holds one 2025 record for each of the first      *)
(* numItems service types, the attractiveness tab is open, and the         *)
(* Segmentation dropdown is used.                                          *)
(***************************************************************************)
(* The values a record is given. *)
BubbleValues == { 1000, 3000 }

(* One record of 2025 per category, with the values given by measure. *)
BubbleRecords(measure) ==
  [ k \in 1..Len(measure) |->
      MeasuredRecord(2025, "U.S.", serviceTypes[k], << measure[k], 0 >>) ]

BubbleArrays ==
  { BubbleRecords(measure) :
      measure \in UNION { [1..numItems -> BubbleValues] : numItems \in 1..Len(serviceTypes) } }

InitBubble ==
  /\ client = "bubbles"
  /\ InitCache
  /\ InitMounts
  /\ NoLayout
  /\ NoGen
  /\ InitLib
  /\ data \in BubbleArrays
  /\ filters = InitialFilters
  /\ incrementalFilters = InitialIncrementalFilters
  /\ attractivenessFilters = InitialAttractivenessFilters
  /\ yoyFilters = InitialYoyFilters
  /\ activeTab = "attractiveness"
  /\ filteredResult = filteredData(data, filters)
  /\ yearValue = << >>
  /\ defaultsDue = FALSE
  /\ lastDropped = FALSE

NextBubble ==
  \E value \in Range(SegmentTypeOptions(data)) : AttractivenessSegmentationOnChange(value)

SpecBubble == InitBubble /\ [][NextBubble]_vars

(* The position that a chart of numItems categories gives to the category  *)
(* at the given place of the name order, whatever the values: that of the  *)
(* chart whose opportunities fall in name order.                           *)
RankPositions(numItems) ==
  RelaxLoop(StartPoints(normalizedData(LayoutRaw(numItems))), 0) \o << >>

(* The names of the emitted items, in name order. *)
EmittedNames(emitted) == SortStrings([ k \in 1..Len(emitted) |-> emitted[k].region ] \o << >>)

Caller(name, items) == [ owner |-> name, items |-> items ]

(* [...a]: a new array with the items of a. *)
SpreadCopy(a) == [ owner |-> "fresh", items |-> a.items ]

(* Variant: filter leaves the kept items in the array it is called on. *)
FilterShared(a, kept) == [ owner |-> a.owner, items |-> kept ]

(* a.filter(...): a new array with the kept items. *)
FilterCopy(a, kept) == [ owner |-> "fresh", items |-> kept ]

(* a.sort(): sorts the array it is called on and returns it. *)
SortInPlace(a) == [ owner |-> a.owner, items |-> SortStrings(a.items) ]

(* The content of the caller's array of that name once the arrays of       *)
(* touched, in program order, have been worked on.                         *)
RECURSIVE ContentAfter(_, _, _)
ContentAfter(name, items, touched) ==
  IF touched = << >> THEN items
  ELSE ContentAfter(name,
                    IF Head(touched).owner = name THEN Head(touched).items ELSE items,
                    Tail(touched))

(* filteredData: the loop over the selection lists after the year. *)
RECURSIVE PageLoopArray(_, _, _)
PageLoopArray(filtered, f, dims) ==
  IF dims = << >> THEN filtered
  ELSE PageLoopArray(IF Len(f[Head(dims).key]) > 0
                       THEN FilterCopy(filtered,
                                       DimKept(filtered.items, Head(dims).field, f[Head(dims).key]))
                       ELSE filtered,
                     f, Tail(dims))

(* let filtered = [...data]; one filter per non-empty selection; return    *)
(* filtered                                                                *)
filteredDataArray(d, f) ==
  PageLoopArray(IF Len(f.year) > 0
                  THEN FilterCopy(SpreadCopy(Caller("data", d)), YearKept(d, f.year))
                  ELSE SpreadCopy(Caller("data", d)),
                f, PageDims)

(* The segment dimensions of analysisData: the selection list of filters   *)
(* and the record field it goes with.                                      *)
SegmentDims == SubSeq(PageDims, 2, 5)

(* const segments = selectedSegments && selectedSegments.length > 0        *)
(*   ? selectedSegments.filter(s => s).sort() : segmentsFromData           *)
SegmentsArray(filteredRecords, dim, f) ==
  LET values == Distinct([ i \in 1..Len(filteredRecords) |->
                             getSegmentValue(filteredRecords[i], dim.field) ])
      segmentsFromData ==
        SortInPlace(FilterCopy(SpreadCopy(Caller("fresh", values)),
                               SelectSeq(values, LAMBDA x : x # "")))
      selectedSegments == SelectedSegments(f[dim.key])
  IN  IF selectedSegments.given /\ Len(selectedSegments.list) > 0
        THEN SortInPlace(FilterCopy(Caller(dim.key, selectedSegments.list),
                                    SelectSeq(selectedSegments.list, LAMBDA x : x # "")))
        ELSE segmentsFromData

(* The segments arrays of analysisData, in the order they are made: the    *)
(* four calls of generateSegmentChartData, then the four of                *)
(* generateYearWiseStackedBarData; none when the guard returns first.      *)
AnalysisArrays(filteredRecords, f) ==
  IF AnalysisGuard(filteredRecords) THEN << >>
  ELSE [ i \in 1..(2 * Len(SegmentDims)) |->
           SegmentsArray(filteredRecords, SegmentDims[((i - 1) % Len(SegmentDims)) + 1], f) ]

(* The page after the render that follows a change of data or filters: the *)
(* memos filteredData and analysisData have run.                           *)
RenderAfter(d, f) ==
  LET filtered == filteredDataArray(d, f)
      touched == << filtered >> \o AnalysisArrays(filtered.items, f)
  IN  [ data |-> ContentAfter("data", d, touched),
        filters |-> [ key \in DOMAIN f |->
                        IF key = "marketEvaluation" THEN f[key]
                        ELSE ContentAfter(key, f[key], touched) ],
        filteredData |-> filtered.items ]

(* filterDataframe: the loop over the entries of the filter state. *)
RECURSIVE FilterLoopArray(_, _)
FilterLoopArray(filtered, entries) ==
  IF entries = << >> THEN filtered
  ELSE FilterLoopArray(IF Constrains(Head(entries).values)
                         THEN FilterCopy(filtered,
                                         KeptItems(filtered.items, Head(entries).field,
                                                   Head(entries).values))
                         ELSE filtered,
                       Tail(entries))

(* let filtered = [...data]; the loop; return filtered *)
filterDataframeArray(d, g) == FilterLoopArray(SpreadCopy(Caller("data", d)), g)

(* The years of the page's records, not in ascending order. *)
FrameYears == << years[2], years[1] >>

FramePool ==
  { MeasuredRecord(y, "U.S.", st, << 1000, 3 >>) :
      y \in Range(FrameYears), st \in Range(MeasuredServiceTypes) }

FrameArrays == UNION { [1..n -> FramePool] : n \in 0..MaxRecords }

InitFrame ==
  /\ client = "frame"
  /\ InitCache
  /\ InitMounts
  /\ NoLayout
  /\ NoGen
  /\ InitLib
  /\ data \in FrameArrays
  /\ filters = InitialFilters
  /\ incrementalFilters = InitialIncrementalFilters
  /\ attractivenessFilters = InitialAttractivenessFilters
  /\ yoyFilters = InitialYoyFilters
  /\ activeTab = "standard"
  /\ filteredResult = filteredData(data, filters)
  /\ yearValue = << >>
  /\ defaultsDue = FALSE
  /\ lastDropped = FALSE

(* The page's state after a handler has set the filters to f and the page  *)
(* has rendered.                                                           *)
FrameRender(f) ==
  /\ client = "frame"
  /\ \E after \in { RenderAfter(data, f) } :
       /\ data' = after.data
       /\ filters' = after.filters
       /\ filteredResult' = after.filteredData
  /\ UNCHANGED << cacheVars, calls, mountVars, client, layoutVars, genVars, libVars,
                  incrementalFilters, attractivenessFilters, yoyFilters, activeTab, yearValue,
                  defaultsDue, lastDropped >>

(* onChange of the By Service Type dropdown, and the render. *)
FrameSegmentOnChange(value) == FrameRender([filters EXCEPT !.byServiceType = value])

(* onChange of the Market Evaluation select, and the render. *)
FrameEvaluationOnChange(value) == FrameRender([filters EXCEPT !.marketEvaluation = value])

(* A call filterDataframe(data, g), once in a run: fData and fFilters are  *)
(* the arguments as the call leaves them, fOut is the result.              *)
FrameFilterDataframe(g) ==
  /\ client = "frame"
  /\ fChain = << >>
  /\ \E filtered \in { filterDataframeArray(data, g) } :
       /\ fOut' = filtered.items
       /\ fData' = ContentAfter("data", data, << filtered >>)
       /\ data' = ContentAfter("data", data, << filtered >>)
       /\ fFilters' = [ i \in 1..Len(g) |->
                          [ field |-> g[i].field,
                            values |-> ContentAfter(g[i].field, g[i].values, << filtered >>) ] ]
  /\ fChain' = << g >>
  /\ fPrev' = data
  /\ UNCHANGED << cacheVars, calls, mountVars, client, layoutVars, genVars, filters,
                  incrementalFilters, attractivenessFilters, yoyFilters, activeTab,
                  filteredResult, yearValue, defaultsDue, lastDropped >>

NextFrame ==
  \/ \E value \in Selections(ServiceTypeOptions) : FrameSegmentOnChange(value)
  \/ \E value \in { "By Value", "By Volume" } : FrameEvaluationOnChange(value)
  \/ \E g \in FilterStates : FrameFilterDataframe(g)

SpecFrame == InitFrame /\ [][NextFrame]_vars

(* C28: filtering and pivoting leave their inputs as they were.  Over a    *)
(* step of the page the record sequence keeps its content and order, the   *)
(* filter state is the one the handler has set, with every selection list  *)
(* in the order it was given (also when the pivot helpers have sorted an   *)
(* explicit segment list), the records handed to the pivot helpers are     *)
(* the filtered ones, and a call of filterDataframe leaves the records and *)
(* the lists of its filter state as they were passed.                      *)
C28_InputsUnchanged ==
  [][client = "frame" =>
       /\ data' = data
       /\ \/ filters' = filters
          \/ \E value \in { "By Value", "By Volume" } :
                filters' = [filters EXCEPT !.marketEvaluation = value]
          \/ \E value \in Selections(ServiceTypeOptions) :
                filters' = [filters EXCEPT !.byServiceType = value]
       /\ filteredResult' = filteredData(data, filters')
       /\ fChain' # fChain =>
            /\ fData' = data
            /\ fFilters' = fChain'[Len(fChain')]
            /\ fOut' = filterDataframe(data, fFilters')]_vars

(* The pivot helpers have sorted the explicit list of two service types    *)
(* that are selected out of name order, over records that pass the         *)
(* filters, and filterDataframe has filtered the page's records.           *)
C28_Witness ==
  /\ client = "frame"
  /\ filters.byServiceType = << serviceTypes[1], serviceTypes[2] >>
  /\ SortStrings(filters.byServiceType) # filters.byServiceType
  /\ filters.marketEvaluation = "By Volume"
  /\ Len(filteredResult) > 1
  /\ fChain # << >>
  /\ Len(fOut) \in 1..(Len(data) - 1)

(***************************************************************************)
(* The load sequence of a mount (SpecFaultFair).  The effect never clears  *)
(* its timers, so a pending callback runs: the 500 ms callbacks in the     *)
(* order they were set, the nested 0 ms callback after its own.            *)
(***************************************************************************)
(* The 500 ms callback of the first pending timer can run exactly when a   *)
(* timer is pending.                                                       *)
LoadTimerEnabled == timers # << >>

(* Weak fairness of the two callbacks, that of LoadTimer written out with  *)
(* LoadTimerEnabled for ENABLED.                                           *)
SpecFaultFair ==
  /\ SpecFault
  /\ \/ []<>(~LoadTimerEnabled)
     \/ []<><<\E m \in Mounts, th \in Throws : LoadTimer(m, th)>>_vars
  /\ WF_vars(\E m \in Mounts : DefaultsTimer(m))

(* The generation run of this step has thrown. *)
RunThrew == genCount' = genCount + 1 /\ lastGen'.null

(* C30: the effect of a mount clears the cache and sets loading; the       *)
(* deferred callback calls getData once, sets data to what it returned and *)
(* loading to false, data being empty when the generation failed; the      *)
(* default filters are set only by a step taken after data was set; a      *)
(* mount whose callback is pending comes to loading = false, and loading   *)
(* does not become true again.                                             *)
C30_LoadSequence ==
  /\ [][\A m \in Mounts :
          (pc[m] = "unmounted" /\ pc'[m] # "unmounted") =>
             (pc'[m] = "waiting" /\ dataCache'.null /\ mLoading'[m] /\ nGet' = nGet)]_vars
  /\ [][\A m \in Mounts :
          (pc[m] = "waiting" /\ pc'[m] # "waiting") =>
             /\ pc'[m] \in {"loaded", "failed"}
             /\ nGet' = nGet + 1
             /\ ~mLoading'[m]
             /\ mData'[m] = (IF pc'[m] = "failed" THEN Arr(<< >>) ELSE ret'.val)
             /\ RunThrew => mData'[m] = Arr(<< >>)
             /\ mFilters'[m] = InitialFilters /\ mYoyFilters'[m] = InitialYoyFilters]_vars
  /\ [][\A m \in Mounts :
          (mFilters'[m] # mFilters[m] \/ mYoyFilters'[m] # mYoyFilters[m]) =>
             /\ pc[m] = "loaded" /\ pc'[m] = "ready"
             /\ mData'[m] = mData[m] /\ ~mLoading[m]
             /\ mFilters'[m] = DefaultFilters(mData[m].arr)
             /\ mYoyFilters'[m] = DefaultYoyFilters]_vars
  /\ [][\A m \in Mounts : (pc[m] # "unmounted" /\ ~mLoading[m]) => ~mLoading'[m]]_vars
  /\ \A m \in Mounts : (pc[m] = "waiting") ~> (pc[m] # "waiting" /\ ~mLoading[m])
  /\ \A m \in Mounts : (pc[m] = "loaded") ~> (pc[m] = "ready")

(* Both mounts have gone through the sequence, one with data and one whose *)
(* generation run failed.                                                  *)
C30_Witness ==
  /\ client = "loader"
  /\ \A m \in Mounts : pc[m] = "ready" /\ ~mLoading[m]
  /\ \E m \in Mounts : Len(mData[m].arr) > 0 /\ mFilters[m] = DefaultFilters(mData[m].arr)
  /\ \E m \in Mounts : Len(mData[m].arr) = 0 /\ mYoyFilters[m] = DefaultYoyFilters

====
